---- MODULE Spec2Model ----
(***************************************************************************)
(* A model of glazier's event-loop integration layer:                      *)
(*   - the macOS idle queue (IdleHandle::add_idle / run_idle),             *)
(*   - the timer registries (Wayland request_timer, macOS NSTimer path),   *)
(*   - the Wayland key-repeat state machine,                               *)
(*   - the macOS text-field focus and native key events,                   *)
(*   - the Wayland window registry, configure and set_size,                *)
(*   - the macOS set_size through the idle queue and set_window_state,     *)
(*   - the Wayland seat: modifiers and pointer frames.                     *)
(* Each subsystem has its own specification; the variables of the other    *)
(* subsystems stay at their initial values.                                *)
(***************************************************************************)
EXTENDS Integers, Sequences, FiniteSets, TLC

VARIABLES
    \* ---- macOS idle queue (src/backend/mac/window.rs) ----
    viewAlive,     \* the NSView (and the ViewState it owns) has not been dealloc'ed
    idle_queue,    \* ViewState.idle_queue: the Vec inside the Mutex
    mutex,         \* holder of the idle_queue mutex, or NoThread
    wakes,         \* pending performSelectorOnMainThread(runIdle) messages
    uiPc,          \* position of the UI thread: "loop", "entered", "drain", "exec"
    taken,         \* run_idle's local `queue` (what mem::take returned)
    pass,          \* number of run_idle takes so far
    addPc,         \* per thread: position inside add_idle
    addItem,       \* per thread: the IdleKind being added
    calls,         \* per thread: number of add_idle calls begun
    executed,      \* history: items run by run_idle, in order, with their pass
    pushes,        \* history: number of queue.push calls so far
    lastPush,      \* history: what the latest queue.push saw and did
    lastCall,      \* history: how the latest add_idle call began
    \* ---- timers (wayland/window.rs request_timer, mac/window.rs request_timer) ----
    backend,       \* the backend this build dispatches to: "wayland" or "mac"
    now,           \* Instant::now(), in nanoseconds since the start
    nextToken,     \* the counter behind TimerToken::next(), a u64
    timers,        \* wayland: appdata.timers, the registry of pending timers
    timeouts,      \* wayland: the timeouts held by appdata.timer_handle
    wlLast,        \* history: the latest wayland request_timer call
    nsTimers,      \* mac: the NSTimers scheduled on the run loop
    macFired,      \* history: the calls of handler.timer made by handle_timer
    macRequests,   \* history: number of mac request_timer calls
    \* ---- Wayland keyboard (wayland/keyboard.rs) ----
    ktime,         \* the event loop's clock, in microseconds
    handles,       \* app_state.handles: ids of the windows in the registry
    window_id,     \* KeyboardData.window_id: the focused window, or NoWindow
    xkb_state,     \* KeyboardState.xkb_state is Some
    repeat_info,   \* KeyboardState.repeat_info
    repeat_token,  \* KeyboardState.repeat_token, or NoToken
    current_repeat,\* KeyboardState.current_repeat, or NoKey
    sources,       \* the repeat timer sources registered in the event loop
    panicked,      \* a handler of the event loop has panicked
    kPress,        \* history: the press behind current_repeat, while repeat_info stays the same
    lastKey,       \* history: the latest key event given to a handler
    \* ---- macOS text input and key events (mac/window.rs) ----
    active_text_input, \* ViewState.active_text_input, or NoField
    composition,   \* per text field: the handler holds a composition range for it
    resetLog,      \* history: the resets done by the latest text-field call, in order
    lastFocus,     \* history: the latest set_focused_text_field call
    lockLog,       \* history: the input-lock calls made by the latest text-field call, in order
    lastNative,    \* history: the latest native key event and where it went
    \* ---- Wayland windows (wayland/window.rs) ----
    built,         \* ids of the windows WindowBuilder::build has created
    returned,      \* ids of the windows whose build call has returned Ok(handle)
    active_surface_id, \* appdata.active_surface_id: the stack of window ids
    size,          \* Inner.size of the first window, <<width, height>>
    stateless_size,\* Inner.stateless_size of the first window
    frame,         \* Inner.frame of the first window is Some
    csd_fails,     \* Inner.csd_fails of the first window
    last_configure,\* Inner.last_configure of the first window, or NoConfigure
    geometry,      \* the latest xdg_surface.set_window_geometry request
    lastConfigure, \* history: what the latest configure call saw and did
    \* ---- macOS window frame (mac/window.rs) ----
    nsFrame,       \* the size of the NSWindow's frame, <<width, height>>
    \* ---- Wayland seat: modifiers and pointer (keyboard.rs, seat.rs, pointer.rs) ----
    xkb_mods,      \* KeyboardState.xkb_mods
    modifiers,     \* GlazierSeatState.modifiers
    modsReported,  \* history: the modifiers of the latest Modifiers event
    lastFrame,     \* history: the latest pointer_frame batch and the handler calls it made
    \* ---- macOS window state (mac/window.rs) ----
    isMiniaturized,\* NSWindow.isMiniaturized
    isZoomed,      \* NSWindow.isZoomed
    lastStateCall, \* history: the latest set_window_state call and the native calls it issued
    \* ---- Wayland window life cycle (wayland/window.rs) ----
    needs_redraw,  \* Inner.needs_redraw of the first window
    lastRedraw,    \* history: what the latest redraw call saw and did
    firstHook,     \* history: the first handler method called for the first window
    failed,        \* ids of the windows whose build call has returned Err
    buildBefore,   \* history: the registry and the stack when build was last called
    plainSize,     \* history: the content size when no state was last applied
    \* ---- macOS window close (mac/window.rs) ----
    windowOpen,    \* the NSWindow has not closed
    closePending,  \* `close` messages posted to the main thread, not yet performed
    destroys,      \* calls of the handler's destroy
    requestCloses  \* calls of the handler's request_close

idleVars == <<viewAlive, idle_queue, mutex, wakes, uiPc, taken, pass,
              addPc, addItem, calls, executed, pushes, lastPush, lastCall>>

timerVars == <<backend, now, nextToken, timers, timeouts, wlLast, nsTimers,
               macFired, macRequests>>

kbdVars == <<ktime, handles, window_id, xkb_state, repeat_info, repeat_token,
             current_repeat, sources, panicked, kPress, lastKey>>

inputVars == <<active_text_input, composition, resetLog, lastFocus,
               lockLog, lastNative>>

winVars == <<built, returned, active_surface_id>>

geomVars == <<size, stateless_size, frame, csd_fails, last_configure,
              geometry, lastConfigure, nsFrame>>

seatVars == <<xkb_mods, modifiers, modsReported, lastFrame>>

macWinVars == <<isMiniaturized, isZoomed, lastStateCall>>

wlLifeVars == <<needs_redraw, lastRedraw, firstHook, failed, buildBefore,
                plainSize>>

macCloseVars == <<windowOpen, closePending, destroys, requestCloses>>

vars == <<idleVars, timerVars, kbdVars, inputVars, winVars, geomVars,
          seatVars, macWinVars, wlLifeVars, macCloseVars>>

----------------------------------------------------------------------------
\* Bounds

\* number of background threads holding a clone of the IdleHandle
NumThreads == 2
\* total number of add_idle calls
MaxAdds == 3

UiThread == 0
Threads == 0..NumThreads
NoThread == -1
NoItem == [thr |-> NoThread, seq |-> 0, kind |-> "None", callAlive |-> FALSE,
           pushPass |-> 0, order |-> 0]
NoPush == [item |-> NoItem, wasEmpty |-> FALSE, woke |-> FALSE, alive |-> FALSE]
NoCall == [thr |-> NoThread, viewAlive |-> FALSE, inFlight |-> FALSE,
           upgraded |-> FALSE]

\* IdleKind variants reachable through the public IdleHandle API
IdleKinds == {"Callback", "Token"}

\* number of clock advances
MaxTicks == 3
\* the latest deadline requested, in clock steps
MaxDeadlineSteps == 4
\* number of request_timer calls
MaxTimers == 3
\* number of Wayland windows
NumWindows == 2

\* number of steps the keyboard clock advances
MaxKSteps == 7
\* number of raw key codes
NumKeys == 2

Backends == {"wayland", "mac"}
Windows == 1..NumWindows
\* The window whose Inner (size, frame, last configure) is followed.
FirstWindow == 1

RECURSIVE SumCalls(_, _)
SumCalls(c, S) ==
    IF S = {} THEN 0
    ELSE LET t == CHOOSE x \in S : TRUE IN c[t] + SumCalls(c, S \ {t})

----------------------------------------------------------------------------
\* macOS idle queue

\* The Arc<Mutex<Vec<IdleKind>>> is alive while the ViewState owns it or while
\* an add_idle call holds the Arc it got from Weak::upgrade.
QueueAlive == viewAlive \/ \E t \in Threads : addPc[t] # "idle"

\* add_idle, `self.idle_queue.upgrade()`: the call of thread t begins.  The UI
\* thread (0) calls it from a handler callback, that is from the run loop or
\* from inside an idle callback run_idle is executing.
AddIdleUpgrade(t, kind) ==
    /\ addPc[t] = "idle"
    /\ SumCalls(calls, Threads) < MaxAdds
    /\ t = UiThread => uiPc \in {"loop", "exec"}
    /\ calls' = [calls EXCEPT ![t] = @ + 1]
    /\ lastCall' = [thr |-> t, viewAlive |-> viewAlive,
                     inFlight |-> \E u \in Threads : addPc[u] # "idle",
                     upgraded |-> QueueAlive]
    /\ IF QueueAlive
       THEN /\ addPc' = [addPc EXCEPT ![t] = "upgraded"]
            /\ addItem' = [addItem EXCEPT ![t] =
                   [thr |-> t, seq |-> calls[t] + 1, kind |-> kind,
                    callAlive |-> viewAlive, pushPass |-> 0, order |-> 0]]
       ELSE UNCHANGED <<addPc, addItem>>
    /\ UNCHANGED <<viewAlive, idle_queue, mutex, wakes, uiPc, taken, pass,
                   executed, pushes, lastPush>>
    /\ UNCHANGED <<wlLifeVars, macCloseVars, seatVars, macWinVars, timerVars, kbdVars, inputVars, winVars, geomVars>>

\* add_idle, `queue.lock()`
AddIdleLock(t) ==
    /\ addPc[t] = "upgraded"
    /\ mutex = NoThread
    /\ mutex' = t
    /\ addPc' = [addPc EXCEPT ![t] = "locked"]
    /\ UNCHANGED <<viewAlive, idle_queue, wakes, uiPc, taken, pass, addItem,
                   calls, executed, pushes, lastPush, lastCall>>
    /\ UNCHANGED <<wlLifeVars, macCloseVars, seatVars, macWinVars, timerVars, kbdVars, inputVars, winVars, geomVars>>

\* Variant of PostWake: the message is sent even though the view is gone.
PostWake_IgnoresNil(w) == w + 1

\* The message send of add_idle: performSelectorOnMainThread on the loaded
\* nsview; a message to nil (view dropped) does nothing.
PostWake(w) == IF viewAlive THEN w + 1 ELSE w

\* Variant of WakeOnPush: the wake is posted on every push.
WakeOnPush_Always(q, w) == PostWake(w)

\* The wake decision of add_idle: `if queue.is_empty() { ... }`
WakeOnPush(q, w) == IF q = <<>> THEN PostWake(w) ELSE w

\* Variant of CallsOfAdd: add_idle runs the callback itself, on the calling
\* thread.
CallsOfAdd_RunsCallback(ex, item) == Append(ex, [item |-> item, pass |-> pass])

\* The handler calls add_idle makes on the calling thread: none, the item is
\* only pushed (`queue.push(idle)`).
CallsOfAdd(ex, item) == ex

\* add_idle, under the lock: the emptiness test, the wake, `queue.push(idle)`,
\* then the end of the `if let` block, where the guard and the Arc are dropped.
\* When the ViewState is gone and this was the last Arc, the queue and the
\* items in it are destroyed.
AddIdlePush(t) ==
    /\ addPc[t] = "locked"
    /\ mutex = t
    /\ wakes' = WakeOnPush(idle_queue, wakes)
    /\ LET item == [addItem[t] EXCEPT !.pushPass = pass, !.order = pushes + 1]
       IN /\ idle_queue' =
                IF viewAlive \/ \E u \in Threads \ {t} : addPc[u] # "idle"
                THEN Append(idle_queue, item) ELSE <<>>
          /\ lastPush' = [item |-> item, wasEmpty |-> idle_queue = <<>>,
                          woke |-> wakes' # wakes, alive |-> viewAlive]
          /\ executed' = CallsOfAdd(executed, item)
    /\ pushes' = pushes + 1
    /\ mutex' = NoThread
    /\ addPc' = [addPc EXCEPT ![t] = "idle"]
    /\ addItem' = [addItem EXCEPT ![t] = NoItem]
    /\ UNCHANGED <<viewAlive, uiPc, taken, pass, calls, lastCall>>
    /\ UNCHANGED <<wlLifeVars, macCloseVars, seatVars, macWinVars, timerVars, kbdVars, inputVars, winVars, geomVars>>

\* The run loop delivers a pending runIdle message: run_idle is entered.
RunIdleEnter ==
    /\ uiPc = "loop"
    /\ addPc[UiThread] = "idle"
    /\ wakes > 0
    /\ wakes' = wakes - 1
    /\ uiPc' = "entered"
    /\ UNCHANGED <<viewAlive, idle_queue, mutex, taken, pass, addPc, addItem,
                   calls, executed, pushes, lastPush, lastCall>>
    /\ UNCHANGED <<wlLifeVars, macCloseVars, seatVars, macWinVars, timerVars, kbdVars, inputVars, winVars, geomVars>>

\* Variant of TakeQueue: the queue is copied and not cleared.
TakeQueue_NoClear(q) == [taken |-> q, left |-> q]

\* Variant of TakeQueue: the last item pushed is taken first (a stack pop order).
TakeQueue_Lifo(q) ==
    [taken |-> [i \in 1..Len(q) |-> q[Len(q) + 1 - i]], left |-> <<>>]

\* What run_idle keeps of the queue and what it leaves behind.
TakeQueue(q) == [taken |-> q, left |-> <<>>]

\* run_idle, `mem::take(&mut view_state.idle_queue.lock())`
RunIdleTake ==
    /\ uiPc = "entered"
    /\ mutex = NoThread
    /\ taken' = TakeQueue(idle_queue).taken
    /\ idle_queue' = TakeQueue(idle_queue).left
    /\ pass' = pass + 1
    /\ uiPc' = "drain"
    /\ UNCHANGED <<viewAlive, mutex, wakes, addPc, addItem, calls, executed,
                   pushes, lastPush, lastCall>>
    /\ UNCHANGED <<wlLifeVars, macCloseVars, seatVars, macWinVars, timerVars, kbdVars, inputVars, winVars, geomVars>>

\* run_idle, one iteration of `for item in queue`: the handler is called.
RunIdleExec ==
    /\ uiPc = "drain"
    /\ taken # <<>>
    /\ executed' = Append(executed, [item |-> Head(taken), pass |-> pass])
    /\ taken' = Tail(taken)
    /\ uiPc' = "exec"
    /\ UNCHANGED <<viewAlive, idle_queue, mutex, wakes, pass, addPc, addItem,
                   calls, pushes, lastPush, lastCall>>
    /\ UNCHANGED <<wlLifeVars, macCloseVars, seatVars, macWinVars, timerVars, kbdVars, inputVars, winVars, geomVars>>

\* The callback returns to the loop of run_idle.
RunIdleExecEnd ==
    /\ uiPc = "exec"
    /\ addPc[UiThread] = "idle"
    /\ uiPc' = "drain"
    /\ UNCHANGED <<viewAlive, idle_queue, mutex, wakes, taken, pass, addPc,
                   addItem, calls, executed, pushes, lastPush, lastCall>>
    /\ UNCHANGED <<wlLifeVars, macCloseVars, seatVars, macWinVars, timerVars, kbdVars, inputVars, winVars, geomVars>>

\* run_idle returns to the run loop.
RunIdleReturn ==
    /\ uiPc = "drain"
    /\ taken = <<>>
    /\ uiPc' = "loop"
    /\ UNCHANGED <<viewAlive, idle_queue, mutex, wakes, taken, pass, addPc,
                   addItem, calls, executed, pushes, lastPush, lastCall>>
    /\ UNCHANGED <<wlLifeVars, macCloseVars, seatVars, macWinVars, timerVars, kbdVars, inputVars, winVars, geomVars>>

\* dealloc of the view: the ViewState is dropped.  A pending
\* performSelectorOnMainThread retains its receiver and a scheduled NSTimer
\* retains its target, so the view cannot be deallocated while a runIdle
\* message or a timer is pending or while run_idle is running.
DropView ==
    /\ viewAlive
    /\ wakes = 0
    /\ nsTimers = {}
    /\ uiPc = "loop"
    /\ addPc[UiThread] = "idle"
    /\ viewAlive' = FALSE
    /\ idle_queue' = IF \E u \in Threads : addPc[u] # "idle"
                     THEN idle_queue ELSE <<>>
    /\ UNCHANGED <<mutex, wakes, uiPc, taken, pass, addPc, addItem, calls,
                   executed, pushes, lastPush, lastCall>>
    /\ UNCHANGED <<wlLifeVars, macCloseVars, seatVars, macWinVars, timerVars, kbdVars, inputVars, winVars, geomVars>>

IdleNext ==
    \/ \E t \in Threads, k \in IdleKinds : AddIdleUpgrade(t, k)
    \/ \E t \in Threads : AddIdleLock(t)
    \/ \E t \in Threads : AddIdlePush(t)
    \/ RunIdleEnter
    \/ RunIdleTake
    \/ RunIdleExec
    \/ RunIdleExecEnd
    \/ RunIdleReturn
    \/ DropView

----------------------------------------------------------------------------
\* Time and tokens

\* Duration::subsec_micros: nanoseconds per microsecond
NanosPerMicro == 1000
\* The clock advances in steps of half a microsecond.
ClockStep == NanosPerMicro \div 2
DeadlineSet == {k * ClockStep : k \in 0..MaxDeadlineSteps}

\* A u64 is kept as four 16-bit limbs, least significant first.
LimbBase == 65536
U64(a, b, c, d) == <<a, b, c, d>>
U64Zero == U64(0, 0, 0, 0)
U64One == U64(1, 0, 0, 0)

\* x + 1 (mod 2^64)
U64Inc(x) ==
    IF x[1] + 1 < LimbBase THEN U64(x[1] + 1, x[2], x[3], x[4])
    ELSE IF x[2] + 1 < LimbBase THEN U64(0, x[2] + 1, x[3], x[4])
    ELSE IF x[3] + 1 < LimbBase THEN U64(0, 0, x[3] + 1, x[4])
    ELSE IF x[4] + 1 < LimbBase THEN U64(0, 0, 0, x[4] + 1)
    ELSE U64Zero

\* The counter starts at 1; 2^32 - 1 is the counter after 2^32 - 2 tokens have
\* been handed out.
CounterStarts == {U64One, U64(LimbBase - 1, LimbBase - 1, 0, 0)}

\* Variant of UnsignedIntValue: the NSNumber is read back at its full width
\* (unsignedIntegerValue).
UnsignedIntValue_FullWidth(x) == x

\* -[NSNumber unsignedIntValue]: the value as a C unsigned int, 32 bits wide.
UnsignedIntValue(x) == U64(x[1], x[2], 0, 0)

NoRequest == [deadline |-> -1, id |-> 0, token |-> U64Zero, now |-> 0,
              timersBefore |-> {}, timeoutsBefore |-> {}]

\* Time passes.
Tick ==
    /\ ~panicked
    /\ now + ClockStep <= MaxTicks * ClockStep
    /\ now' = now + ClockStep
    /\ UNCHANGED <<backend, nextToken, timers, timeouts, wlLast, nsTimers,
                   macFired, macRequests>>
    /\ UNCHANGED <<wlLifeVars, macCloseVars, seatVars, macWinVars, idleVars, kbdVars, inputVars, winVars, geomVars>>

----------------------------------------------------------------------------
\* Wayland timer registry

\* The deadline of timers.peek(): the registry is a BinaryHeap whose greatest
\* element is the timer with the earliest deadline.
PeekDeadline(T) ==
    CHOOSE d \in {t.deadline : t \in T} : \A t \in T : d <= t.deadline

\* Variant of Sooner: a deadline equal to the earliest one also counts.
Sooner_OrEqual(deadline, T) ==
    IF T = {} THEN TRUE ELSE deadline <= PeekDeadline(T)

\* request_timer, `timers.peek().map(|timer| deadline < timer.deadline())
\* .unwrap_or(true)`
Sooner(deadline, T) ==
    IF T = {} THEN TRUE ELSE deadline < PeekDeadline(T)

\* Variant of WlTimeout: the subtraction is made without the test.
WlTimeout_Unclamped(deadline, n) == deadline - n

\* request_timer, `if deadline < now { Duration::ZERO } else { deadline - now }`
WlTimeout(deadline, n) == IF deadline < n THEN 0 ELSE deadline - n

\* Variant of Reprogram: the timeout is added without cancelling the others.
Reprogram_NoCancel(old, new) == old \cup {new}

\* request_timer, `cancel_all_timeouts(); add_timeout(timeout, timer.token())`
Reprogram(old, new) == {new}

\* WindowHandle::request_timer on the live window w (Wayland)
WlRequestTimer(w, deadline) ==
    /\ backend = "wayland"
    /\ ~panicked
    /\ Cardinality(timers) < MaxTimers
    /\ LET timer == [token |-> nextToken, deadline |-> deadline, id |-> w]
           timeout == [token |-> timer.token,
                       dur |-> WlTimeout(deadline, now),
                       deadline |-> deadline, at |-> now]
       IN /\ timers' = timers \cup {timer}
          /\ timeouts' = IF Sooner(deadline, timers)
                         THEN Reprogram(timeouts, timeout) ELSE timeouts
          /\ wlLast' = [deadline |-> deadline, id |-> w, token |-> timer.token,
                        now |-> now, timersBefore |-> timers,
                        timeoutsBefore |-> timeouts]
    /\ nextToken' = U64Inc(nextToken)
    /\ UNCHANGED <<backend, now, nsTimers, macFired, macRequests>>
    /\ UNCHANGED <<wlLifeVars, macCloseVars, seatVars, macWinVars, idleVars, kbdVars, inputVars, winVars, geomVars>>

\* WindowHandle::id on a handle whose `inner` is None:
\* `self.inner.borrow().as_ref().unwrap().id` panics.
IdPanics(hasInner) == ~hasInner

\* WindowHandle::request_timer on a handle whose `inner` is None (the handle
\* WindowHandle::default() makes): the None arm logs the warning and then
\* evaluates `Timer::new(self.id(), deadline)`, whose self.id() comes first.
WlRequestTimerAbsent(deadline) ==
    /\ backend = "wayland"
    /\ ~panicked
    /\ panicked' = IdPanics(FALSE)
    /\ UNCHANGED <<ktime, handles, window_id, xkb_state, repeat_info,
                   repeat_token, current_repeat, sources, kPress, lastKey>>
    /\ UNCHANGED <<backend, now, nextToken, timers, timeouts, wlLast,
                   nsTimers, macFired, macRequests>>
    /\ UNCHANGED <<wlLifeVars, macCloseVars, seatVars, macWinVars, idleVars, inputVars, winVars,
                   geomVars>>

----------------------------------------------------------------------------
\* macOS timers

\* Variant of TimeIntervalFromDeadline: the interval is rounded up to the
\* next whole microsecond.
TimeIntervalFromDeadline_RoundUp(deadline, n) ==
    IF n >= deadline THEN 0
    ELSE ((deadline - n + NanosPerMicro - 1) \div NanosPerMicro) * NanosPerMicro

\* time_interval_from_deadline: whole seconds plus subsec_micros, that is the
\* interval truncated to whole microseconds (kept here in nanoseconds).
TimeIntervalFromDeadline(deadline, n) ==
    IF n >= deadline THEN 0
    ELSE ((deadline - n) \div NanosPerMicro) * NanosPerMicro

\* WindowHandle::request_timer (macOS).  The NSTimer does not repeat; its
\* target is the loaded nsview, and a timer whose target is nil calls nothing.
MacRequestTimer(deadline) ==
    /\ backend = "mac"
    /\ macRequests < MaxTimers
    /\ macRequests' = macRequests + 1
    /\ LET ti == TimeIntervalFromDeadline(deadline, now)
           timer == [userInfo |-> nextToken, ti |-> ti, at |-> now,
                     deadline |-> deadline]
       IN nsTimers' = IF viewAlive THEN nsTimers \cup {timer} ELSE nsTimers
    /\ nextToken' = U64Inc(nextToken)
    /\ UNCHANGED <<backend, now, timers, timeouts, wlLast, macFired>>
    /\ UNCHANGED <<wlLifeVars, macCloseVars, seatVars, macWinVars, idleVars, kbdVars, inputVars, winVars, geomVars>>

\* The run loop fires a due NSTimer: handle_timer reads the token back from
\* the userInfo and calls handler.timer.
HandleTimer(t) ==
    /\ backend = "mac"
    /\ t \in nsTimers
    /\ now >= t.at + t.ti
    /\ nsTimers' = nsTimers \ {t}
    /\ macFired' = Append(macFired, [returned |-> t.userInfo,
                                      token |-> UnsignedIntValue(t.userInfo),
                                      at |-> now, deadline |-> t.deadline])
    /\ UNCHANGED <<backend, now, nextToken, timers, timeouts, wlLast,
                   macRequests>>
    /\ UNCHANGED <<wlLifeVars, macCloseVars, seatVars, macWinVars, idleVars, kbdVars, inputVars, winVars, geomVars>>

\* The view of the macOS window is deallocated.
MacDropView ==
    /\ backend = "mac"
    /\ DropView

TimerNext ==
    \/ Tick
    \/ \E w \in Windows, d \in DeadlineSet : WlRequestTimer(w, d)
    \/ \E d \in DeadlineSet : WlRequestTimerAbsent(d)
    \/ \E d \in DeadlineSet : MacRequestTimer(d)
    \/ \E t \in nsTimers : HandleTimer(t)
    \/ MacDropView
----------------------------------------------------------------------------
\* Wayland keyboard: key repeat

\* RepeatInfo::default(): gap in milliseconds
DefaultGapMs == 40
\* RepeatInfo::default(): delay in milliseconds
DefaultDelayMs == 200
\* Duration::from_millis, in microseconds
MicrosPerMilli == 1000
\* RepeatInfo event: the gap is 1_000_000 microseconds / rate
MicrosPerSec == 1000000
\* `let key = key + 8`
KeycodeOffset == 8

RawKeys == 1..NumKeys
NoKey == 0
NoWindow == 0
NoToken == 0
Disable == [kind |-> "Disable", gap |-> 0, delay |-> 0]
Repeat(gap, delay) == [kind |-> "Repeat", gap |-> gap, delay |-> delay]
\* impl Default for RepeatInfo
DefaultRepeatInfo ==
    Repeat(DefaultGapMs * MicrosPerMilli, DefaultDelayMs * MicrosPerMilli)

\* The <<rate, delay>> pairs the compositor announces.
RepeatInfoInputs == {<<0, 200>>, <<30, 120>>}
KeymapFormats == {"XkbV1", "NoKeymap"}

\* The clock advances by at most one default gap at a time.
KStep == DefaultGapMs * MicrosPerMilli

NoPress == [key |-> NoKey, at |-> 0, n |-> 0]
\* Modifiers::empty()
NoModifiers == {}
NoKeyEvent == [key |-> NoKey, state |-> "None", repeat |-> FALSE,
               flip |-> FALSE, mods |-> NoModifiers]

\* key_input reaches a handler: a window has the focus and is in the registry.
HasHandler == window_id # NoWindow /\ window_id \in handles

\* key_input: the event given to the handler of the focused window, if any,
\* with `event.mods = keyboard_state.xkb_mods.get()`.
\* `xkb_state.as_mut().unwrap()` panics when no keymap has been installed.
KeyInput(keycode, state, repeat) ==
    IF ~HasHandler THEN UNCHANGED <<lastKey, panicked>>
    ELSE IF ~xkb_state THEN panicked' = TRUE /\ UNCHANGED lastKey
    ELSE /\ lastKey' = [key |-> keycode, state |-> state, repeat |-> repeat,
                        flip |-> ~lastKey.flip, mods |-> xkb_mods]
         /\ UNCHANGED panicked

KeyInputPanics == HasHandler /\ ~xkb_state

\* insert_source: the loop hands out a token no registered source has.
FreshToken ==
    CHOOSE n \in 1..(Cardinality(sources) + 2) :
        n # repeat_token /\ \A src \in sources : src.token # n

\* loop_handle.remove(token)
RemoveSource(S, token) == {src \in S : src.token # token}

\* Variant of ReplaceSource: the new timer is inserted without removing the
\* one registered before.
ReplaceSource_NoRemove(S, token, new) == S \cup {new}

\* Key pressed: `if let Some(token) = repeat_token.take() { remove(token) }`
\* followed by `insert_source(timer, ..)`.
ReplaceSource(S, token, new) ==
    (IF token # NoToken THEN RemoveSource(S, token) ELSE S) \cup {new}

\* wl_keyboard::Event::Keymap
Keymap(format) ==
    /\ ~panicked
    /\ xkb_state' = IF format = "XkbV1" THEN TRUE ELSE xkb_state
    /\ UNCHANGED <<ktime, handles, window_id, repeat_info, repeat_token,
                   current_repeat, sources, panicked, kPress,
                   lastKey>>
    /\ UNCHANGED <<wlLifeVars, macCloseVars, seatVars, macWinVars, idleVars, timerVars, inputVars, winVars, geomVars>>

\* wl_keyboard::Event::Enter
Enter(w) ==
    /\ ~panicked
    /\ current_repeat' = NoKey
    /\ kPress' = NoPress
    /\ window_id' = w
    /\ UNCHANGED <<ktime, handles, xkb_state, repeat_info, repeat_token,
                   sources, panicked, lastKey>>
    /\ UNCHANGED <<wlLifeVars, macCloseVars, seatVars, macWinVars, idleVars, timerVars, inputVars, winVars, geomVars>>

\* wl_keyboard::Event::Leave
Leave ==
    /\ ~panicked
    /\ current_repeat' = NoKey
    /\ kPress' = NoPress
    /\ window_id' = NoWindow
    /\ UNCHANGED <<ktime, handles, xkb_state, repeat_info, repeat_token,
                   sources, panicked, lastKey>>
    /\ UNCHANGED <<wlLifeVars, macCloseVars, seatVars, macWinVars, idleVars, timerVars, inputVars, winVars, geomVars>>

\* Variant of RepeatDelay: the first repeat is scheduled after the gap.
RepeatDelay_UsesGap(info) == info.gap

\* Key pressed: `RepeatInfo::Repeat { delay, .. } => delay`
RepeatDelay(info) == info.delay

\* wl_keyboard::Event::Key, state Pressed
KeyPressed(raw) ==
    /\ ~panicked
    /\ LET key == raw + KeycodeOffset
       IN /\ KeyInput(key, "Down", FALSE)
          /\ IF KeyInputPanics \/ repeat_info = Disable
             THEN UNCHANGED <<current_repeat, repeat_token, sources, kPress>>
             ELSE /\ current_repeat' = key
                  /\ sources' = ReplaceSource(sources, repeat_token,
                         [token |-> FreshToken,
                          deadline |-> ktime + RepeatDelay(repeat_info)])
                  /\ repeat_token' = FreshToken
                  /\ kPress' = [key |-> key, at |-> ktime, n |-> 0]
    /\ UNCHANGED <<ktime, handles, window_id, xkb_state, repeat_info>>
    /\ UNCHANGED <<wlLifeVars, macCloseVars, seatVars, macWinVars, idleVars, timerVars, inputVars, winVars, geomVars>>

\* The callback of the repeat timer source, run when its deadline is reached.
\* It drops the source when no key is repeating or repeat is disabled and
\* otherwise asks to be called again after the gap.
RepeatTimer(src) ==
    /\ ~panicked
    /\ src \in sources
    /\ ktime >= src.deadline
    /\ IF current_repeat = NoKey
       THEN /\ sources' = sources \ {src}
            /\ UNCHANGED <<lastKey, panicked, kPress>>
       ELSE /\ kPress' = IF kPress = NoPress THEN NoPress
                         ELSE [kPress EXCEPT !.n = @ + 1]
            /\ KeyInput(current_repeat, "Down", TRUE)
            /\ sources' =
                  IF KeyInputPanics \/ repeat_info = Disable
                  THEN sources \ {src}
                  ELSE (sources \ {src}) \cup
                       {[src EXCEPT !.deadline = ktime + repeat_info.gap]}
    /\ UNCHANGED <<ktime, handles, window_id, xkb_state, repeat_info,
                   repeat_token, current_repeat>>
    /\ UNCHANGED <<wlLifeVars, macCloseVars, seatVars, macWinVars, idleVars, timerVars, inputVars, winVars, geomVars>>

\* Variant of ReleaseRepeat: a key release leaves the repeat key in place.
ReleaseRepeat_Keeps(info, cur) == cur

\* Key released: `if repeat_info != RepeatInfo::Disable { current_repeat = None }`
\* (whichever key was released).
ReleaseRepeat(info, cur) == IF info # Disable THEN NoKey ELSE cur

\* wl_keyboard::Event::Key, state Released
KeyReleased(raw) ==
    /\ ~panicked
    /\ KeyInput(raw + KeycodeOffset, "Up", FALSE)
    /\ IF ~KeyInputPanics
       THEN /\ current_repeat' = ReleaseRepeat(repeat_info, current_repeat)
            /\ kPress' = IF repeat_info # Disable THEN NoPress ELSE kPress
       ELSE UNCHANGED <<current_repeat, kPress>>
    /\ UNCHANGED <<ktime, handles, window_id, xkb_state, repeat_info,
                   repeat_token, sources>>
    /\ UNCHANGED <<wlLifeVars, macCloseVars, seatVars, macWinVars, idleVars, timerVars, inputVars, winVars, geomVars>>

\* Variant of DisableSources: disabling repeat leaves the timer registered.
DisableSources_KeepsTimer(S, token) == S

\* RepeatInfo with rate 0:
\* `if let Some(repeat_token) = repeat_token.take() { loop_handle.remove(..) }`
DisableSources(S, token) ==
    IF token # NoToken THEN RemoveSource(S, token) ELSE S

\* Variant of GapFromRate: the gap is computed in whole milliseconds.
GapFromRate_Millis(rate) == ((MicrosPerSec \div MicrosPerMilli) \div rate)
                               * MicrosPerMilli

\* RepeatInfo with a nonzero rate: `Duration::from_micros(1_000_000 / rate)`
GapFromRate(rate) == MicrosPerSec \div rate

\* wl_keyboard::Event::RepeatInfo
RepeatInfoEvent(rate, delayMs) ==
    /\ ~panicked
    /\ IF rate = 0
       THEN /\ current_repeat' = NoKey
            /\ sources' = DisableSources(sources, repeat_token)
            /\ repeat_token' = NoToken
            /\ repeat_info' = Disable
       ELSE /\ repeat_info' = Repeat(GapFromRate(rate),
                                     delayMs * MicrosPerMilli)
            /\ UNCHANGED <<current_repeat, sources, repeat_token>>
    /\ kPress' = IF repeat_info' = repeat_info THEN kPress ELSE NoPress
    /\ UNCHANGED <<ktime, handles, window_id, xkb_state, panicked, lastKey>>
    /\ UNCHANGED <<wlLifeVars, macCloseVars, seatVars, macWinVars, idleVars, timerVars, inputVars, winVars, geomVars>>

\* No build call is waiting for its initial configure: the application is
\* not inside WindowBuilder::build (every call has returned, Ok or Err).
NoBuildInProgress == returned \cup failed = built

\* VecDeque::pop_front: the front element is dropped, whichever it is;
\* nothing happens on an empty deque.
PopFront(q) == IF q = <<>> THEN q ELSE Tail(q)

\* WindowHandle::close (Wayland), on the handle of a window that was built
\* (`inner` stays Some after a close): the id leaves the registry and the
\* front of the stack of active surfaces is popped.
WlClose(w) ==
    /\ ~panicked
    /\ w \in returned
    /\ NoBuildInProgress
    /\ handles' = handles \ {w}
    /\ active_surface_id' = PopFront(active_surface_id)
    /\ UNCHANGED <<ktime, window_id, xkb_state, repeat_info, repeat_token,
                   current_repeat, sources, panicked, kPress,
                   lastKey>>
    /\ UNCHANGED <<built, returned>>
    /\ UNCHANGED <<wlLifeVars, macCloseVars, seatVars, macWinVars, idleVars, timerVars, inputVars, geomVars>>

\* The earliest deadline among the registered sources.
NextDeadline ==
    CHOOSE d \in {src.deadline : src \in sources} :
        \A src \in sources : d <= src.deadline

\* Time passes in the event loop.  A timer source is dispatched when its
\* deadline is reached: the clock does not move past a due source.
KTick ==
    /\ ~panicked
    /\ \A src \in sources : src.deadline > ktime
    /\ ktime < MaxKSteps * KStep
    /\ ktime' = IF sources # {} /\ NextDeadline < ktime + KStep
                THEN NextDeadline ELSE ktime + KStep
    /\ UNCHANGED <<handles, window_id, xkb_state, repeat_info, repeat_token,
                   current_repeat, sources, panicked, kPress,
                   lastKey>>
    /\ UNCHANGED <<wlLifeVars, macCloseVars, seatVars, macWinVars, idleVars, timerVars, inputVars, winVars, geomVars>>

KbdNext ==
    \/ \E f \in KeymapFormats : Keymap(f)
    \/ \E w \in Windows : Enter(w)
    \/ Leave
    \/ \E k \in RawKeys : KeyPressed(k)
    \/ \E k \in RawKeys : KeyReleased(k)
    \/ \E src \in sources : RepeatTimer(src)
    \/ \E i \in RepeatInfoInputs : RepeatInfoEvent(i[1], i[2])
    \/ \E w \in Windows : WlClose(w)
    \/ KTick

----------------------------------------------------------------------------
\* macOS: the focused text field and native key events

\* number of text fields the application has added to the window
NumFields == 2
\* number of distinct native key events (NSEvent objects)
NumNativeEvents == 2

TextFields == 1..NumFields
NoField == 0
NativeEvents == 1..NumNativeEvents
NoEvent == 0
NoFocusCall == [old |-> NoField, new |-> NoField, alive |-> FALSE]
NoNative == [kind |-> "none", ev |-> NoEvent, produced |-> FALSE,
             hook |-> "none", handled |-> FALSE, forwarded |-> NoEvent]

\* update_text_field(token, Event::Reset) while `active` is the active field:
\* nothing unless token is the active field, else the marked text is discarded
\* and the field's composition range is set to None.  The log keeps the field
\* that was reset and the field that was active at that moment.
UpdateTextFieldReset(active, token, log) ==
    IF active # token THEN log
    ELSE Append(log, [field |-> token, active |-> active])

\* Variant of SetFocusResets: active_text_input is assigned before the old
\* field is reset.
SetFocusResets_AssignFirst(old, new) ==
    LET l1 == IF old # NoField THEN UpdateTextFieldReset(new, old, <<>>)
              ELSE <<>>
    IN IF new # NoField THEN UpdateTextFieldReset(new, new, l1) ELSE l1

\* set_focused_text_field: the resets it performs, in order.  The old field
\* is reset while it is still the active one, then active_text_input is
\* assigned, then the new field is reset.
SetFocusResets(old, new) ==
    LET l1 == IF old # NoField THEN UpdateTextFieldReset(old, old, <<>>)
              ELSE <<>>
    IN IF new # NoField THEN UpdateTextFieldReset(new, new, l1) ELSE l1

\* Variant of LockCalls: the lock is not released.
LockCalls_NoRelease(token) == <<[op |-> "acquire", token |-> token]>>

\* `handler.acquire_input_lock(token, ..)`, the use of the lock, then
\* `handler.release_input_lock(token)`
LockCalls(token) ==
    <<[op |-> "acquire", token |-> token], [op |-> "release", token |-> token]>>

\* The lock calls behind a log of resets: update_text_field takes and
\* releases the lock of each field it resets.
RECURSIVE LocksOfResets(_)
LocksOfResets(log) ==
    IF log = <<>> THEN <<>>
    ELSE LockCalls(Head(log).field) \o LocksOfResets(Tail(log))

\* set_composition_range(None) on every field of the log
ClearComposition(comp, log) ==
    [f \in TextFields |->
        IF \E i \in 1..Len(log) : log[i].field = f THEN FALSE ELSE comp[f]]

\* WindowHandle::set_focused_text_field
SetFocusedTextField(new) ==
    /\ lastFocus' = [old |-> active_text_input, new |-> new,
                     alive |-> viewAlive]
    /\ IF viewAlive
       THEN /\ resetLog' = SetFocusResets(active_text_input, new)
            /\ active_text_input' = new
            /\ composition' = ClearComposition(composition, resetLog')
       ELSE /\ resetLog' = <<>>
            /\ UNCHANGED <<active_text_input, composition>>
    /\ lockLog' = LocksOfResets(resetLog')
    /\ UNCHANGED lastNative
    /\ UNCHANGED <<wlLifeVars, macCloseVars, seatVars, macWinVars, idleVars, timerVars, kbdVars, winVars, geomVars>>

\* WindowHandle::update_text_field with Event::Reset or
\* Event::SelectionChanged (LayoutChanged only invalidates the character
\* coordinates of the input context).
UpdateTextField(token, event) ==
    /\ viewAlive
    /\ resetLog' = IF event = "LayoutChanged" THEN <<>>
                   ELSE UpdateTextFieldReset(active_text_input, token, <<>>)
    /\ composition' = ClearComposition(composition, resetLog')
    /\ lockLog' = LocksOfResets(resetLog')
    /\ UNCHANGED <<active_text_input, lastFocus, lastNative>>
    /\ UNCHANGED <<wlLifeVars, macCloseVars, seatVars, macWinVars, idleVars, timerVars, kbdVars, winVars, geomVars>>

\* WindowHandle::remove_text_field
RemoveTextField(token) ==
    /\ viewAlive
    /\ active_text_input' = IF active_text_input = token THEN NoField
                            ELSE active_text_input
    /\ resetLog' = <<>>
    /\ lockLog' = <<>>
    /\ UNCHANGED <<composition, lastFocus, lastNative>>
    /\ UNCHANGED <<wlLifeVars, macCloseVars, seatVars, macWinVars, idleVars, timerVars, kbdVars, winVars, geomVars>>

\* with_edit_lock_from_window, called by the input context for a key event
\* that was forwarded to it: the closure gets the lock of the active field
\* (here it sets or clears the field's composition range); without an active
\* field `view_state.active_text_input?` returns None at once.
WithEditLockFromWindow(marked) ==
    /\ viewAlive
    /\ lastNative.forwarded # NoEvent
    /\ IF active_text_input # NoField
       THEN /\ composition' = [composition EXCEPT
                                  ![active_text_input] = marked]
            /\ lockLog' = LockCalls(active_text_input)
       ELSE /\ UNCHANGED composition
            /\ lockLog' = <<>>
    /\ resetLog' = <<>>
    /\ UNCHANGED <<active_text_input, lastFocus, lastNative>>
    /\ UNCHANGED <<wlLifeVars, macCloseVars, seatVars, macWinVars, idleVars, timerVars, kbdVars, winVars, geomVars>>

\* Variant of ForwardToIme: the key-down goes to the input context whatever
\* the handler returned.
ForwardToIme_Always(produced, handled) == produced

\* key_down: `if let Some(event) = process_native_event(nsevent)
\*            { if !handler.key_down(event) { interpretKeyEvents } }`
ForwardToIme(produced, handled) == produced /\ ~handled

\* extern "C" fn key_down
KeyDown(ev, produced, handled) ==
    /\ viewAlive
    /\ lastNative' =
          [kind |-> "key_down", ev |-> ev, produced |-> produced,
           hook |-> IF produced THEN "key_down" ELSE "none",
           handled |-> produced /\ handled,
           forwarded |-> IF ForwardToIme(produced, handled) THEN ev
                         ELSE NoEvent]
    /\ UNCHANGED <<active_text_input, composition, resetLog, lastFocus,
                   lockLog>>
    /\ UNCHANGED <<wlLifeVars, macCloseVars, seatVars, macWinVars, idleVars, timerVars, kbdVars, winVars, geomVars>>

\* extern "C" fn key_up
KeyUp(ev, produced) ==
    /\ viewAlive
    /\ lastNative' =
          [kind |-> "key_up", ev |-> ev, produced |-> produced,
           hook |-> IF produced THEN "key_up" ELSE "none",
           handled |-> FALSE, forwarded |-> NoEvent]
    /\ UNCHANGED <<active_text_input, composition, resetLog, lastFocus,
                   lockLog>>
    /\ UNCHANGED <<wlLifeVars, macCloseVars, seatVars, macWinVars, idleVars, timerVars, kbdVars, winVars, geomVars>>

\* extern "C" fn mods_changed: the event goes to key_down or key_up by its
\* state, and the result of key_down is ignored.
ModsChanged(ev, produced, down, handled) ==
    /\ viewAlive
    /\ lastNative' =
          [kind |-> "mods_changed", ev |-> ev, produced |-> produced,
           hook |-> IF ~produced THEN "none"
                    ELSE IF down THEN "key_down" ELSE "key_up",
           handled |-> produced /\ down /\ handled, forwarded |-> NoEvent]
    /\ UNCHANGED <<active_text_input, composition, resetLog, lastFocus,
                   lockLog>>
    /\ UNCHANGED <<wlLifeVars, macCloseVars, seatVars, macWinVars, idleVars, timerVars, kbdVars, winVars, geomVars>>

MacInputNext ==
    \/ \E f \in TextFields \cup {NoField} : SetFocusedTextField(f)
    \/ \E f \in TextFields,
          e \in {"LayoutChanged", "Reset", "SelectionChanged"} :
             UpdateTextField(f, e)
    \/ \E f \in TextFields : RemoveTextField(f)
    \/ \E m \in BOOLEAN : WithEditLockFromWindow(m)
    \/ \E ev \in NativeEvents, p \in BOOLEAN, h \in BOOLEAN : KeyDown(ev, p, h)
    \/ \E ev \in NativeEvents, p \in BOOLEAN : KeyUp(ev, p)
    \/ \E ev \in NativeEvents, p \in BOOLEAN, d \in BOOLEAN, h \in BOOLEAN :
          ModsChanged(ev, p, d, h)
    \/ DropView

----------------------------------------------------------------------------
\* Wayland: building, configuring and resizing windows

\* kurbo::Size holds f64 pixels; sizes are kept in half pixels here.
UnitsPerPixel == 2
\* the top border of the decoration frame, in pixels
FrameTop == 10

Px(n) == n * UnitsPerPixel
\* `x as u32`, `x as i32` on a non-negative f64: the fraction is dropped
AsU32(x) == x \div UnitsPerPixel

\* WindowBuilder::size given by the application: 500 x 400
InitialSize == <<Px(500), Px(400)>>
\* The sizes the application passes to set_size: 0.5 x 400, 500 x 400 and
\* 300.5 x 200.
SizeInputs == {<<1, Px(400)>>, <<Px(500), Px(400)>>, <<Px(300) + 1, Px(200)>>}
\* WindowConfigure.new_size, (Option<NonZeroU32>, Option<NonZeroU32>) with 0
\* for None: no size, 500 x 410, and 640 x 5 (lower than the frame's border).
NoNewSize == <<0, 0>>
ConfigureSizes == {NoNewSize, <<500, 410>>, <<640, 5>>}
DecorationModes == {"Client", "Server"}

NoConfigure == [configured |-> FALSE, stateless |-> FALSE]
NoGeometry == [x |-> 0, y |-> 0, width |-> 0, height |-> 0]
NoConfigureCall == [mode |-> "None", hadFrame |-> FALSE,
                    failedBefore |-> FALSE, attempted |-> FALSE]

\* DecorationsFrame::add_borders, in pixels
AddBorders(w, h) == <<w, h + FrameTop>>
\* DecorationsFrame::subtract_borders, in pixels: None (0) for a dimension
\* that does not exceed the border
SubtractBorders(w, h) == <<w, IF h > FrameTop THEN h - FrameTop ELSE 0>>
\* DecorationsFrame::location
FrameLocation == <<0, 0 - FrameTop>>

\* Variant of OuterSize: the geometry is the content size, frame or not.
OuterSize_NoBorders(fr, sz) == <<AsU32(sz[1]), AsU32(sz[2])>>

\* set_size: `frame.add_borders(inner.size.width as u32, inner.size.height
\* as u32)` with a frame, inner.size without; cast to i32 for the request.
OuterSize(fr, sz) ==
    IF fr THEN AddBorders(AsU32(sz[1]), AsU32(sz[2]))
    ELSE <<AsU32(sz[1]), AsU32(sz[2])>>

\* set_size: `NonZeroU32::new(inner.size.width as u32).unwrap()` (and height)
\* in the resize of the frame
ResizePanics(fr, sz) == fr /\ (AsU32(sz[1]) = 0 \/ AsU32(sz[2]) = 0)

\* WindowHandle::set_size on the first window with the given frame and last
\* configure: size and stateless_size are assigned before the frame is
\* resized, the window geometry is sent after.
SetSizeInner(sz, fr, lc) ==
    /\ size' = sz
    /\ stateless_size' = IF lc.configured /\ lc.stateless THEN sz
                         ELSE stateless_size
    /\ IF ResizePanics(fr, sz)
       THEN panicked' = TRUE /\ UNCHANGED geometry
       ELSE /\ UNCHANGED panicked
            /\ geometry' =
                 [x |-> IF fr THEN FrameLocation[1] ELSE 0,
                  y |-> IF fr THEN FrameLocation[2] ELSE 0,
                  width |-> OuterSize(fr, sz)[1],
                  height |-> OuterSize(fr, sz)[2]]

\* is_stateless: the latest configure carries a maximized, fullscreen or
\* tiled state.
StateApplied(lc) == lc.configured /\ ~lc.stateless

\* WindowHandle::set_size on the handle of the first window.  The handle
\* exists from the moment build has created it (the registry holds a clone),
\* and set_size does not look at is_configured.
WlSetSize(sz) ==
    /\ ~panicked
    /\ FirstWindow \in built
    /\ SetSizeInner(sz, frame, last_configure)
    /\ plainSize' = IF StateApplied(last_configure) THEN plainSize ELSE sz
    /\ UNCHANGED <<needs_redraw, lastRedraw, firstHook, failed, buildBefore>>
    /\ UNCHANGED <<frame, csd_fails, last_configure, lastConfigure, nsFrame>>
    /\ UNCHANGED <<ktime, handles, window_id, xkb_state, repeat_info,
                   repeat_token, current_repeat, sources, kPress, lastKey>>
    /\ UNCHANGED <<macCloseVars, seatVars, macWinVars, idleVars, timerVars, inputVars, winVars>>

\* Variant of AttemptsFrame: a failed construction is tried again.
AttemptsFrame_Retries(mode, fr, fails) == mode = "Client" /\ ~fr

\* configure: `decoration_mode == DecorationMode::Client
\*             && inner.frame.is_none() && !inner.csd_fails`
AttemptsFrame(mode, fr, fails) == mode = "Client" /\ ~fr /\ ~fails

\* configure: the content size chosen for the window
ConfigureSize(fr, newSize, stateless) ==
    IF newSize[1] # 0 /\ newSize[2] # 0
    THEN IF fr
         THEN LET sb == SubtractBorders(newSize[1], newSize[2])
              IN <<Px(IF sb[1] # 0 THEN sb[1] ELSE 1),
                   Px(IF sb[2] # 0 THEN sb[2] ELSE 1)>>
         ELSE <<Px(newSize[1]), Px(newSize[2])>>
    ELSE IF stateless THEN stateless_size ELSE size

\* WindowHandle::configure for a configure event of the first window: the
\* last configure and the size are set, then the handler's size is called
\* (unless set_size has panicked).
\* frameOk is the outcome of AdwaitaFrame::new when it is attempted.
Configure(mode, newSize, stateless, frameOk) ==
    /\ ~panicked
    /\ FirstWindow \in handles
    /\ LET attempt == AttemptsFrame(mode, frame, csd_fails)
           fr == IF attempt THEN frameOk
                 ELSE IF mode = "Server" THEN FALSE ELSE frame
           lc == [configured |-> TRUE, stateless |-> stateless]
       IN /\ frame' = fr
          /\ csd_fails' = (csd_fails \/ (attempt /\ ~frameOk))
          /\ last_configure' = lc
          /\ lastConfigure' = [mode |-> mode, hadFrame |-> frame,
                               failedBefore |-> csd_fails,
                               attempted |-> attempt]
          /\ SetSizeInner(ConfigureSize(fr, newSize, stateless), fr, lc)
          /\ plainSize' = IF StateApplied(lc) THEN plainSize
                          ELSE ConfigureSize(fr, newSize, stateless)
    /\ firstHook' = IF firstHook = "none" /\ ~panicked' THEN "size"
                    ELSE firstHook
    /\ UNCHANGED <<needs_redraw, lastRedraw, failed, buildBefore>>
    /\ UNCHANGED nsFrame
    /\ UNCHANGED <<ktime, handles, window_id, xkb_state, repeat_info,
                   repeat_token, current_repeat, sources, kPress, lastKey>>
    /\ UNCHANGED <<macCloseVars, seatVars, macWinVars, idleVars, timerVars, inputVars, winVars>>

\* VecDeque::push_front
PushFront(q, x) == <<x>> \o q


\* WindowBuilder::build, up to the wait: the handle enters the registry under
\* its id and the id is pushed on the stack of active surfaces; build then
\* dispatches events until the initial configure has arrived.
Build(w) ==
    /\ ~panicked
    /\ w \notin built
    /\ NoBuildInProgress
    /\ built' = built \cup {w}
    /\ UNCHANGED returned
    /\ buildBefore' = [handles |-> handles, stack |-> active_surface_id]
    /\ handles' = handles \cup {w}
    /\ active_surface_id' = PushFront(active_surface_id, w)
    /\ needs_redraw' = IF w = FirstWindow THEN TRUE ELSE needs_redraw
    /\ firstHook' = IF w = FirstWindow THEN "none" ELSE firstHook
    /\ UNCHANGED <<lastRedraw, failed, plainSize>>
    /\ UNCHANGED <<ktime, window_id, xkb_state, repeat_info, repeat_token,
                   current_repeat, sources, panicked, kPress, lastKey>>
    /\ UNCHANGED <<macCloseVars, seatVars, macWinVars, idleVars, timerVars, inputVars, geomVars>>

\* Variant of LeavesWait: build returns without waiting for the configure.
LeavesWait_NoWait(w, lc) == TRUE

\* build, `while !handle.is_configured() { blocking_dispatch }`: the loop is
\* left once last_configure is Some.  Only the first window's Inner is
\* followed; the configure of another window is taken to have arrived.
LeavesWait(w, lc) == w # FirstWindow \/ lc.configured

\* WindowBuilder::build, after the wait: the handler's connect is called and
\* Ok(handle) is returned.
BuildReturn(w) ==
    /\ ~panicked
    /\ w \in built \ (returned \cup failed)
    /\ LeavesWait(w, last_configure)
    /\ returned' = returned \cup {w}
    /\ firstHook' = IF w = FirstWindow /\ firstHook = "none" THEN "connect"
                    ELSE firstHook
    /\ UNCHANGED <<needs_redraw, lastRedraw, failed, buildBefore, plainSize>>
    /\ UNCHANGED <<built, active_surface_id>>
    /\ UNCHANGED <<macCloseVars, seatVars, macWinVars, idleVars, timerVars,
                   kbdVars, inputVars, geomVars>>

\* WindowBuilder::build, `event_queue.roundtrip(..)?` and
\* `event_queue.blocking_dispatch(..)?`: the call returns Err from where it
\* stands; the insert into `handles` and the push_front on
\* `active_surface_id` have been done and nothing undoes them.
BuildFails(w) ==
    /\ ~panicked
    /\ w \in built \ (returned \cup failed)
    /\ failed' = failed \cup {w}
    /\ UNCHANGED <<needs_redraw, lastRedraw, firstHook, buildBefore, plainSize>>
    /\ UNCHANGED <<built, returned, active_surface_id>>
    /\ UNCHANGED <<macCloseVars, seatVars, macWinVars, idleVars, timerVars,
                   kbdVars, inputVars, geomVars>>

\* request_anim_frame, invalidate, invalidate_rect on the handle of the first
\* window: `inner.needs_redraw = true`.
Invalidate ==
    /\ ~panicked
    /\ FirstWindow \in built
    /\ needs_redraw' = TRUE
    /\ UNCHANGED <<lastRedraw, firstHook, failed, buildBefore, plainSize>>
    /\ UNCHANGED <<macCloseVars, seatVars, macWinVars, idleVars, timerVars,
                   kbdVars, inputVars, winVars, geomVars>>

\* WindowHandle::redraw on the handle of the first window.  `dirty` is what
\* frame.is_dirty() answers in refresh_frame (false without a frame).
\* `handler` is Some only when inner.needs_redraw was set, so
\* `if needs_redraw || refresh_frame { handler.as_ref().unwrap() .. paint }`
\* paints once on a request and panics on a dirty frame without one.
Redraw(dirty) ==
    /\ ~panicked
    /\ FirstWindow \in built
    /\ dirty => frame
    /\ needs_redraw' = FALSE
    /\ lastRedraw' = [requested |-> needs_redraw, dirty |-> dirty,
                      paints |-> IF needs_redraw THEN 1 ELSE 0]
    /\ panicked' = (~needs_redraw /\ dirty)
    /\ firstHook' = IF firstHook = "none" /\ needs_redraw THEN "paint"
                    ELSE firstHook
    /\ UNCHANGED <<failed, buildBefore, plainSize>>
    /\ UNCHANGED <<ktime, handles, window_id, xkb_state, repeat_info,
                   repeat_token, current_repeat, sources, kPress, lastKey>>
    /\ UNCHANGED <<macCloseVars, seatVars, macWinVars, idleVars, timerVars,
                   inputVars, winVars, geomVars>>

WlNext ==
    \/ \E w \in Windows : Build(w)
    \/ \E w \in Windows : BuildReturn(w)
    \/ \E w \in Windows : BuildFails(w)
    \/ \E w \in Windows : WlClose(w)
    \/ \E m \in DecorationModes, n \in ConfigureSizes, s \in BOOLEAN,
          ok \in BOOLEAN : Configure(m, n, s, ok)
    \/ \E sz \in SizeInputs : WlSetSize(sz)

\* Drawing the first window: it is built and configured (with or without
\* a frame), redraws are requested and made.
RedrawNext ==
    \/ Build(FirstWindow)
    \/ BuildReturn(FirstWindow)
    \/ \E m \in DecorationModes, ok \in BOOLEAN :
          Configure(m, NoNewSize, TRUE, ok)
    \/ Invalidate
    \/ \E d \in BOOLEAN : Redraw(d)

----------------------------------------------------------------------------
\* macOS: resizing the window through the idle queue

\* run_idle on a queue of deferred operations: each SetSize is applied to the
\* window's frame in turn (set_size_deferred).
RECURSIVE RunDeferred(_, _)
RunDeferred(fr, q) ==
    IF q = <<>> THEN fr ELSE RunDeferred(Head(q).size, Tail(q))

\* WindowHandle::set_size (macOS), on the UI thread:
\* defer(DeferredOp::SetSize(size)) adds the operation to the idle queue,
\* unless the view is gone.
MacSetSize(sz) ==
    /\ Len(idle_queue) < MaxAdds
    /\ IF viewAlive
       THEN /\ wakes' = WakeOnPush(idle_queue, wakes)
            /\ idle_queue' = Append(idle_queue,
                                    [kind |-> "DeferredOp", size |-> sz])
       ELSE UNCHANGED <<idle_queue, wakes>>
    /\ UNCHANGED <<viewAlive, mutex, uiPc, taken, pass, addPc, addItem,
                   calls, executed, pushes, lastPush, lastCall>>
    /\ UNCHANGED <<wlLifeVars, macCloseVars, seatVars, macWinVars, timerVars, kbdVars, inputVars, winVars, geomVars>>

\* run_idle (macOS) on a queue of deferred operations
MacRunDeferred ==
    /\ wakes > 0
    /\ wakes' = wakes - 1
    /\ idle_queue' = TakeQueue(idle_queue).left
    /\ nsFrame' = RunDeferred(nsFrame, TakeQueue(idle_queue).taken)
    /\ UNCHANGED <<size, stateless_size, frame, csd_fails, last_configure,
                   geometry, lastConfigure>>
    /\ UNCHANGED <<viewAlive, mutex, uiPc, taken, pass, addPc, addItem,
                   calls, executed, pushes, lastPush, lastCall>>
    /\ UNCHANGED <<wlLifeVars, macCloseVars, seatVars, macWinVars, timerVars, kbdVars, inputVars, winVars>>

\* WindowState
WindowStates == {"Restored", "Minimized", "Maximized"}
NoStateCall == [state |-> "None", cur |-> "None", calls |-> <<>>]

\* get_window_state: Minimized when isMiniaturized, else Maximized when
\* isZoomed, else Restored.  With the view gone the messages go to nil, which
\* answers NO.
GetWindowState ==
    IF viewAlive /\ isMiniaturized THEN "Minimized"
    ELSE IF viewAlive /\ isZoomed THEN "Maximized"
    ELSE "Restored"

\* Variant of NativeCalls: the request is carried out even when the window is
\* already in the requested state.
NativeCalls_NoSameStateGuard(state, cur) ==
    CASE state = "Minimized" -> <<"performMiniaturize">>
      [] state = "Maximized" -> <<"performZoom">>
      [] state = "Restored" /\ cur = "Maximized" -> <<"performZoom">>
      [] state = "Restored" /\ cur = "Minimized" -> <<"deminiaturize">>
      [] OTHER -> <<>>

\* set_window_state, `match (state, cur_state)`: the messages sent to the
\* NSWindow.
NativeCalls(state, cur) ==
    IF state = cur THEN <<>>
    ELSE CASE state = "Minimized" -> <<"performMiniaturize">>
           [] state = "Maximized" -> <<"performZoom">>
           [] state = "Restored" /\ cur = "Maximized" -> <<"performZoom">>
           [] state = "Restored" /\ cur = "Minimized" -> <<"deminiaturize">>
           [] OTHER -> <<>>

\* WindowHandle::set_window_state (macOS).  performMiniaturize and
\* deminiaturize set and clear isMiniaturized, performZoom toggles isZoomed;
\* a message to nil (view gone) does nothing.
SetWindowState(state) ==
    /\ LET sent == NativeCalls(state, GetWindowState)
       IN /\ lastStateCall' = [state |-> state, cur |-> GetWindowState,
                               calls |-> sent]
          /\ isMiniaturized' =
                IF ~viewAlive \/ sent = <<>> THEN isMiniaturized
                ELSE IF sent[1] = "performMiniaturize" THEN TRUE
                ELSE IF sent[1] = "deminiaturize" THEN FALSE
                ELSE isMiniaturized
          /\ isZoomed' =
                IF viewAlive /\ sent # <<>> /\ sent[1] = "performZoom"
                THEN ~isZoomed ELSE isZoomed
    /\ UNCHANGED <<wlLifeVars, macCloseVars, seatVars, idleVars, timerVars, kbdVars, inputVars, winVars,
                   geomVars>>

\* the close requests of the window system and the close() calls followed
MaxCloseRequests == 2
MaxCloses == 2

\* Variant of ShouldCloseAnswer: the delegate lets the window close.
ShouldCloseAnswer_Yes == "YES"

\* window_should_close: the value returned to AppKit.
ShouldCloseAnswer == "NO"

\* windowShouldClose: sent by AppKit when the window system asks for the
\* window to be closed (close button, performClose).  The handler's
\* request_close is called; on YES AppKit goes on to close the window, which
\* sends windowWillClose (the handler's destroy).
NativeCloseRequest ==
    /\ viewAlive
    /\ windowOpen
    /\ requestCloses < MaxCloseRequests
    /\ requestCloses' = requestCloses + 1
    /\ windowOpen' = (ShouldCloseAnswer = "NO")
    /\ destroys' = IF ShouldCloseAnswer = "NO" THEN destroys ELSE destroys + 1
    /\ UNCHANGED closePending
    /\ UNCHANGED <<wlLifeVars, seatVars, macWinVars, idleVars, timerVars,
                   kbdVars, inputVars, winVars, geomVars>>

\* WindowHandle::close (macOS): a `close` message for the view's window is
\* posted to the main thread (waitUntilDone: NO); a handle whose view is gone
\* sends to nil.
MacClose ==
    /\ closePending < MaxCloses
    /\ closePending' = IF viewAlive THEN closePending + 1 ELSE closePending
    /\ UNCHANGED <<windowOpen, destroys, requestCloses>>
    /\ UNCHANGED <<wlLifeVars, seatVars, macWinVars, idleVars, timerVars,
                   kbdVars, inputVars, winVars, geomVars>>

\* The main thread performs a posted `close`: an open window closes and its
\* delegate gets windowWillClose (window_will_close: handler.destroy()).  A
\* window that has closed is taken to close no second time.
RunClose ==
    /\ closePending > 0
    /\ closePending' = closePending - 1
    /\ windowOpen' = FALSE
    /\ destroys' = IF windowOpen THEN destroys + 1 ELSE destroys
    /\ UNCHANGED requestCloses
    /\ UNCHANGED <<wlLifeVars, seatVars, macWinVars, idleVars, timerVars,
                   kbdVars, inputVars, winVars, geomVars>>

MacSizeNext ==
    \/ \E sz \in SizeInputs : MacSetSize(sz)
    \/ MacRunDeferred
    \/ \E st \in WindowStates : SetWindowState(st)
    \/ DropView
    \/ NativeCloseRequest
    \/ MacClose
    \/ RunClose

----------------------------------------------------------------------------
\* Wayland seat: modifiers and pointer frames

\* the raw modifier masks (mods_depressed) the compositor reports
ModMasks == {0, 1}
\* MOD_SHIFT: ModMap(1, Modifiers::SHIFT)
ModShiftBit == 1

\* event_to_mods: the Modifiers of a raw mask
EventToMods(mask) ==
    IF (mask \div ModShiftBit) % 2 = 1 THEN {"Shift"} ELSE NoModifiers

\* wl_keyboard::Event::Modifiers: the seat's `modifiers` field after the
\* event.  Only `keyboard_state.xkb_mods` is replaced; the seat's field is
\* left as it was.
ModifiersAssign(seatMods, new) == seatMods

\* wl_keyboard::Event::Modifiers
ModifiersEvent(mask) ==
    /\ ~panicked
    /\ xkb_mods' = EventToMods(mask)
    /\ modifiers' = ModifiersAssign(modifiers, EventToMods(mask))
    /\ modsReported' = EventToMods(mask)
    /\ UNCHANGED lastFrame
    /\ UNCHANGED <<wlLifeVars, macCloseVars, macWinVars, idleVars, timerVars, kbdVars, inputVars,
                   winVars, geomVars>>

\* The axis values of a wl_pointer frame: <<horizontal, vertical>>, each with
\* its discrete (notch) count and its absolute (continuous) value.
NoAxis == [hDiscrete |-> 0, vDiscrete |-> 0, hAbsolute |-> 0, vAbsolute |-> 0]
AxisInputs ==
    {[hDiscrete |-> 0, vDiscrete |-> 1, hAbsolute |-> 0, vAbsolute |-> 15],
     [hDiscrete |-> 0, vDiscrete |-> 0, hAbsolute |-> 3, vAbsolute |-> 0 - 7]}

\* The pointer events of a frame: those on the main surface of a window, and
\* those on a decoration sub-surface of the first window (motion, a button
\* press for which AdwaitaFrame::on_click yields the frame action Close or
\* Maximize, a wheel notch).  `action` is "None" where no frame action is
\* involved.
PointerEvents ==
    [win : Windows, surface : {"main"}, kind : {"Motion", "Press", "Release"},
     axis : {NoAxis}, action : {"None"}]
    \cup [win : Windows, surface : {"main"}, kind : {"Axis"},
          axis : AxisInputs, action : {"None"}]
    \cup [win : {FirstWindow}, surface : {"decoration"}, kind : {"Motion"},
          axis : {NoAxis}, action : {"None"}]
    \cup [win : {FirstWindow}, surface : {"decoration"}, kind : {"Press"},
          axis : {NoAxis}, action : {"Close", "Maximize"}]
    \cup [win : {FirstWindow}, surface : {"decoration"}, kind : {"Axis"},
          axis : {a \in AxisInputs : a.vDiscrete # 0}, action : {"None"}]

\* The batches a frame delivers: one event, or a motion on a main surface
\* followed by another event on a main surface.
PointerBatches ==
    {<<e>> : e \in PointerEvents}
    \cup {<<m, e>> : m \in {x \in PointerEvents :
                               x.kind = "Motion" /\ x.surface = "main"},
                     e \in {x \in PointerEvents : x.surface = "main"}}

OnDecoration(events) ==
    \E i \in 1..Len(events) : events[i].surface = "decoration"

\* PointerEventKind::Axis: `let delta = if has_discrete_scroll { .. }`
WheelDelta(axis) ==
    IF axis.hDiscrete # 0 \/ axis.vDiscrete # 0
    THEN <<0 - axis.hDiscrete, 0 - axis.vDiscrete>>
    ELSE <<0 - axis.hAbsolute, 0 - axis.vAbsolute>>

\* The handler method a pointer event ends in.
PointerHook(kind) ==
    CASE kind = "Motion" -> "pointer_move"
      [] kind = "Press" -> "pointer_down"
      [] kind = "Release" -> "pointer_up"
      [] kind = "Axis" -> "wheel"

\* pointer_frame, `match event.kind`: the arms for the decorations carry the
\* guard `if parent_surface != surface` for Enter, Motion, Leave, Press and
\* Release; the Axis arm has no such guard and no decoration arm precedes it.
ReachesHandler(e) == e.surface = "main" \/ e.kind = "Axis"

\* The handler call made for one event: the event carries the `modifiers`
\* read from the seat state at the top of pointer_frame.
PointerCall(e, mods) ==
    [win |-> e.win, hook |-> PointerHook(e.kind), mods |-> mods,
     delta |-> IF e.kind = "Axis" THEN WheelDelta(e.axis) ELSE <<0, 0>>]

\* Variant of PointerCalls: the loop is left at the first event whose window
\* is not in the registry.
RECURSIVE PointerCalls_StopsAtUnknown(_, _, _)
PointerCalls_StopsAtUnknown(events, reg, mods) ==
    IF events = <<>> \/ Head(events).win \notin reg THEN <<>>
    ELSE (IF ReachesHandler(Head(events))
          THEN <<PointerCall(Head(events), mods)>> ELSE <<>>)
         \o PointerCalls_StopsAtUnknown(Tail(events), reg, mods)

\* pointer_frame, `for event in events`: an event whose window id is not in
\* `handles` is skipped (`None => continue`).
RECURSIVE PointerCalls(_, _, _)
PointerCalls(events, reg, mods) ==
    IF events = <<>> THEN <<>>
    ELSE (IF Head(events).win \in reg /\ ReachesHandler(Head(events))
          THEN <<PointerCall(Head(events), mods)>> ELSE <<>>)
         \o PointerCalls(Tail(events), reg, mods)

\* The frame_click calls of a batch (button presses on the decorations of a
\* registered window); the latest one is kept.  frame_click returns
\* `Some(false)` whatever the frame action, and its Close arm is
\* `FrameAction::Close => { // WinitState::queue_close(updates, window_id); }`:
\* no close update is pushed on `updates`.
RECURSIVE ClicksOf(_, _, _)
ClicksOf(events, reg, click) ==
    IF events = <<>> THEN click
    ELSE ClicksOf(Tail(events), reg,
                  IF /\ Head(events).win \in reg
                     /\ Head(events).surface = "decoration"
                     /\ Head(events).kind = "Press"
                  THEN [action |-> Head(events).action,
                        shouldClose |-> FALSE, closeQueued |-> FALSE]
                  ELSE click)

NoFrame == [events |-> <<>>, calls |-> <<>>,
            click |-> [action |-> "None", shouldClose |-> FALSE,
                       closeQueued |-> FALSE],
            reentered |-> FALSE]

\* PointerHandler::pointer_frame.  Events on the decorations need a frame.
\* `reenters`: a handler method the frame calls does call close() on its own
\* window's handle.  `let mut handles = self.handles.borrow_mut();` is alive
\* while the handler method runs, and WindowHandle::close does
\* `appdata.handles.borrow_mut()`: borrowing a RefCell that is already
\* borrowed panics.
PointerFrame(events, reenters) ==
    /\ ~panicked
    /\ OnDecoration(events) => frame
    /\ LET made == PointerCalls(events, handles, modifiers)
       IN /\ reenters => made # <<>>
          /\ lastFrame' = [events |-> events, calls |-> made,
                            click |-> ClicksOf(events, handles, NoFrame.click),
                            reentered |-> reenters]
          /\ panicked' = reenters
    /\ UNCHANGED <<xkb_mods, modifiers, modsReported>>
    /\ UNCHANGED <<ktime, handles, window_id, xkb_state, repeat_info,
                   repeat_token, current_repeat, sources, kPress, lastKey>>
    /\ UNCHANGED <<wlLifeVars, macCloseVars, macWinVars, idleVars, timerVars, inputVars, winVars,
                   geomVars>>

SeatNext ==
    \/ \E f \in KeymapFormats : Keymap(f)
    \/ \E w \in Windows : Enter(w)
    \/ Leave
    \/ \E m \in ModMasks : ModifiersEvent(m)
    \/ \E k \in RawKeys : KeyPressed(k)
    \/ \E k \in RawKeys : KeyReleased(k)
    \/ \E b \in PointerBatches, r \in BOOLEAN : PointerFrame(b, r)
    \/ \E w \in Windows : WlClose(w)

----------------------------------------------------------------------------
\* Specifications

\* The state after construction: the idle queue of a macOS window after
\* make_view, no timer requested, the keyboard of a Wayland seat after
\* KeyboardState::new (default RepeatInfo, no keymap, no focused surface).
Init ==
    /\ viewAlive = TRUE
    /\ idle_queue = <<>>
    /\ mutex = NoThread
    /\ wakes = 0
    /\ uiPc = "loop"
    /\ taken = <<>>
    /\ pass = 0
    /\ addPc = [t \in Threads |-> "idle"]
    /\ addItem = [t \in Threads |-> NoItem]
    /\ calls = [t \in Threads |-> 0]
    /\ executed = <<>>
    /\ pushes = 0
    /\ lastPush = NoPush
    /\ lastCall = NoCall
    /\ backend = "mac"
    /\ now = 0
    /\ nextToken = U64One
    /\ timers = {}
    /\ timeouts = {}
    /\ wlLast = NoRequest
    /\ nsTimers = {}
    /\ macFired = <<>>
    /\ macRequests = 0
    /\ ktime = 0
    /\ handles = Windows
    /\ window_id = NoWindow
    /\ xkb_state = FALSE
    /\ repeat_info = DefaultRepeatInfo
    /\ repeat_token = NoToken
    /\ current_repeat = NoKey
    /\ sources = {}
    /\ panicked = FALSE
    /\ kPress = NoPress
    /\ lastKey = NoKeyEvent
    /\ active_text_input = NoField
    /\ composition = [f \in TextFields |-> FALSE]
    /\ resetLog = <<>>
    /\ lastFocus = NoFocusCall
    /\ lockLog = <<>>
    /\ lastNative = NoNative
    /\ built = Windows
    /\ returned = Windows
    /\ active_surface_id = [i \in 1..NumWindows |-> NumWindows + 1 - i]
    /\ size = InitialSize
    /\ stateless_size = InitialSize
    /\ frame = FALSE
    /\ csd_fails = FALSE
    /\ last_configure = [configured |-> TRUE, stateless |-> TRUE]
    /\ geometry = [x |-> 0, y |-> 0, width |-> 500, height |-> 400]
    /\ lastConfigure = [mode |-> "Server", hadFrame |-> FALSE,
                        failedBefore |-> FALSE, attempted |-> FALSE]
    /\ nsFrame = InitialSize
    /\ xkb_mods = NoModifiers
    /\ modifiers = NoModifiers
    /\ modsReported = NoModifiers
    /\ lastFrame = NoFrame
    /\ needs_redraw = TRUE
    /\ lastRedraw = [requested |-> FALSE, dirty |-> FALSE, paints |-> 0]
    /\ firstHook = "size"
    /\ failed = {}
    /\ buildBefore = [handles |-> Windows \ {NumWindows},
                      stack |-> [i \in 1..(NumWindows - 1) |-> NumWindows - i]]
    /\ plainSize = InitialSize
    /\ windowOpen = TRUE
    /\ closePending = 0
    /\ destroys = 0
    /\ requestCloses = 0
    /\ isMiniaturized = FALSE
    /\ isZoomed = FALSE
    /\ lastStateCall = NoStateCall

\* The idle queue of one macOS window.
SpecIdle == Init /\ [][IdleNext]_vars

\* The timers of one build (Wayland or macOS).  The TimerToken counter starts
\* at 1, or at 2^32 - 1 after 2^32 - 2 tokens have been handed out.
InitTimer ==
    /\ viewAlive = TRUE
    /\ idle_queue = <<>>
    /\ mutex = NoThread
    /\ wakes = 0
    /\ uiPc = "loop"
    /\ taken = <<>>
    /\ pass = 0
    /\ addPc = [t \in Threads |-> "idle"]
    /\ addItem = [t \in Threads |-> NoItem]
    /\ calls = [t \in Threads |-> 0]
    /\ executed = <<>>
    /\ pushes = 0
    /\ lastPush = NoPush
    /\ lastCall = NoCall
    /\ backend \in Backends
    /\ now = 0
    /\ nextToken \in CounterStarts
    /\ timers = {}
    /\ timeouts = {}
    /\ wlLast = NoRequest
    /\ nsTimers = {}
    /\ macFired = <<>>
    /\ macRequests = 0
    /\ ktime = 0
    /\ handles = Windows
    /\ window_id = NoWindow
    /\ xkb_state = FALSE
    /\ repeat_info = DefaultRepeatInfo
    /\ repeat_token = NoToken
    /\ current_repeat = NoKey
    /\ sources = {}
    /\ panicked = FALSE
    /\ kPress = NoPress
    /\ lastKey = NoKeyEvent
    /\ active_text_input = NoField
    /\ composition = [f \in TextFields |-> FALSE]
    /\ resetLog = <<>>
    /\ lastFocus = NoFocusCall
    /\ lockLog = <<>>
    /\ lastNative = NoNative
    /\ built = Windows
    /\ returned = Windows
    /\ active_surface_id = [i \in 1..NumWindows |-> NumWindows + 1 - i]
    /\ size = InitialSize
    /\ stateless_size = InitialSize
    /\ frame = FALSE
    /\ csd_fails = FALSE
    /\ last_configure = [configured |-> TRUE, stateless |-> TRUE]
    /\ geometry = [x |-> 0, y |-> 0, width |-> 500, height |-> 400]
    /\ lastConfigure = [mode |-> "Server", hadFrame |-> FALSE,
                        failedBefore |-> FALSE, attempted |-> FALSE]
    /\ nsFrame = InitialSize
    /\ xkb_mods = NoModifiers
    /\ modifiers = NoModifiers
    /\ modsReported = NoModifiers
    /\ lastFrame = NoFrame
    /\ needs_redraw = TRUE
    /\ lastRedraw = [requested |-> FALSE, dirty |-> FALSE, paints |-> 0]
    /\ firstHook = "size"
    /\ failed = {}
    /\ buildBefore = [handles |-> Windows \ {NumWindows},
                      stack |-> [i \in 1..(NumWindows - 1) |-> NumWindows - i]]
    /\ plainSize = InitialSize
    /\ windowOpen = TRUE
    /\ closePending = 0
    /\ destroys = 0
    /\ requestCloses = 0
    /\ isMiniaturized = FALSE
    /\ isZoomed = FALSE
    /\ lastStateCall = NoStateCall

SpecTimer == InitTimer /\ [][TimerNext]_vars

\* The keyboard of one Wayland seat and its repeat timer.
SpecKbd == Init /\ [][KbdNext]_vars

\* The Wayland windows of one application, from before the first build.
InitWl ==
    /\ viewAlive = TRUE
    /\ idle_queue = <<>>
    /\ mutex = NoThread
    /\ wakes = 0
    /\ uiPc = "loop"
    /\ taken = <<>>
    /\ pass = 0
    /\ addPc = [t \in Threads |-> "idle"]
    /\ addItem = [t \in Threads |-> NoItem]
    /\ calls = [t \in Threads |-> 0]
    /\ executed = <<>>
    /\ pushes = 0
    /\ lastPush = NoPush
    /\ lastCall = NoCall
    /\ backend = "mac"
    /\ now = 0
    /\ nextToken = U64One
    /\ timers = {}
    /\ timeouts = {}
    /\ wlLast = NoRequest
    /\ nsTimers = {}
    /\ macFired = <<>>
    /\ macRequests = 0
    /\ ktime = 0
    /\ handles = {}
    /\ window_id = NoWindow
    /\ xkb_state = FALSE
    /\ repeat_info = DefaultRepeatInfo
    /\ repeat_token = NoToken
    /\ current_repeat = NoKey
    /\ sources = {}
    /\ panicked = FALSE
    /\ kPress = NoPress
    /\ lastKey = NoKeyEvent
    /\ active_text_input = NoField
    /\ composition = [f \in TextFields |-> FALSE]
    /\ resetLog = <<>>
    /\ lastFocus = NoFocusCall
    /\ lockLog = <<>>
    /\ lastNative = NoNative
    /\ built = {}
    /\ returned = {}
    /\ active_surface_id = <<>>
    /\ size = InitialSize
    /\ stateless_size = InitialSize
    /\ frame = FALSE
    /\ csd_fails = FALSE
    /\ last_configure = NoConfigure
    /\ geometry = NoGeometry
    /\ lastConfigure = NoConfigureCall
    /\ nsFrame = InitialSize
    /\ xkb_mods = NoModifiers
    /\ modifiers = NoModifiers
    /\ modsReported = NoModifiers
    /\ lastFrame = NoFrame
    /\ needs_redraw = TRUE
    /\ lastRedraw = [requested |-> FALSE, dirty |-> FALSE, paints |-> 0]
    /\ firstHook = "none"
    /\ failed = {}
    /\ buildBefore = [handles |-> {}, stack |-> <<>>]
    /\ plainSize = InitialSize
    /\ windowOpen = TRUE
    /\ closePending = 0
    /\ destroys = 0
    /\ requestCloses = 0
    /\ isMiniaturized = FALSE
    /\ isZoomed = FALSE
    /\ lastStateCall = NoStateCall

SpecWl == InitWl /\ [][WlNext]_vars
SpecRedraw == InitWl /\ [][RedrawNext]_vars

\* The frame of one macOS window.
SpecMacSize == Init /\ [][MacSizeNext]_vars

\* The text fields and the native key events of one macOS window.
SpecMacInput == Init /\ [][MacInputNext]_vars

\* A Wayland seat whose compositor has announced repeat rate 0 (the
\* RepeatInfo event that disables key repeat), with both windows built and
\* the first one configured with client-side decorations.
InitSeat ==
    /\ viewAlive = TRUE
    /\ idle_queue = <<>>
    /\ mutex = NoThread
    /\ wakes = 0
    /\ uiPc = "loop"
    /\ taken = <<>>
    /\ pass = 0
    /\ addPc = [t \in Threads |-> "idle"]
    /\ addItem = [t \in Threads |-> NoItem]
    /\ calls = [t \in Threads |-> 0]
    /\ executed = <<>>
    /\ pushes = 0
    /\ lastPush = NoPush
    /\ lastCall = NoCall
    /\ backend = "mac"
    /\ now = 0
    /\ nextToken = U64One
    /\ timers = {}
    /\ timeouts = {}
    /\ wlLast = NoRequest
    /\ nsTimers = {}
    /\ macFired = <<>>
    /\ macRequests = 0
    /\ ktime = 0
    /\ handles = Windows
    /\ window_id = NoWindow
    /\ xkb_state = FALSE
    /\ repeat_info = Disable
    /\ repeat_token = NoToken
    /\ current_repeat = NoKey
    /\ sources = {}
    /\ panicked = FALSE
    /\ kPress = NoPress
    /\ lastKey = NoKeyEvent
    /\ active_text_input = NoField
    /\ composition = [f \in TextFields |-> FALSE]
    /\ resetLog = <<>>
    /\ lastFocus = NoFocusCall
    /\ lockLog = <<>>
    /\ lastNative = NoNative
    /\ built = Windows
    /\ returned = Windows
    /\ active_surface_id = [i \in 1..NumWindows |-> NumWindows + 1 - i]
    /\ size = InitialSize
    /\ stateless_size = InitialSize
    /\ frame = TRUE
    /\ csd_fails = FALSE
    /\ last_configure = [configured |-> TRUE, stateless |-> TRUE]
    /\ geometry = [x |-> FrameLocation[1], y |-> FrameLocation[2],
                   width |-> 500, height |-> 400 + FrameTop]
    /\ lastConfigure = [mode |-> "Client", hadFrame |-> FALSE,
                        failedBefore |-> FALSE, attempted |-> TRUE]
    /\ nsFrame = InitialSize
    /\ xkb_mods = NoModifiers
    /\ modifiers = NoModifiers
    /\ modsReported = NoModifiers
    /\ lastFrame = NoFrame
    /\ needs_redraw = TRUE
    /\ lastRedraw = [requested |-> FALSE, dirty |-> FALSE, paints |-> 0]
    /\ firstHook = "size"
    /\ failed = {}
    /\ buildBefore = [handles |-> Windows \ {NumWindows},
                      stack |-> [i \in 1..(NumWindows - 1) |-> NumWindows - i]]
    /\ plainSize = InitialSize
    /\ windowOpen = TRUE
    /\ closePending = 0
    /\ destroys = 0
    /\ requestCloses = 0
    /\ isMiniaturized = FALSE
    /\ isZoomed = FALSE
    /\ lastStateCall = NoStateCall

\* The keyboard and pointer events of a Wayland seat.
SpecSeat == InitSeat /\ [][SeatNext]_vars

----------------------------------------------------------------------------
\* Properties of the idle queue

ItemId(it) == <<it.thr, it.seq>>
ExecIds == {ItemId(executed[i].item) : i \in 1..Len(executed)}

\* Nothing more happens unless add_idle is called again: no call is in
\* flight, no wake is pending and the UI thread is back in the run loop.
IdleSettled ==
    /\ \A t \in Threads : addPc[t] = "idle"
    /\ wakes = 0
    /\ uiPc = "loop"

\* C1: on a live window every enqueued item is executed exactly once by
\* run_idle: no item is executed twice, items of one enqueuing thread are
\* executed in the order that thread enqueued them, and whenever no call is
\* in flight and no drain is pending or running, every add_idle call made has
\* had its item executed.
C1_ExactlyOnceInThreadOrder ==
    /\ \A i, j \in 1..Len(executed) :
          i < j => /\ ItemId(executed[i].item) # ItemId(executed[j].item)
                   /\ executed[i].item.thr = executed[j].item.thr
                         => executed[i].item.seq < executed[j].item.seq
    /\ (viewAlive /\ IdleSettled) =>
          \A t \in Threads : \A n \in 1..calls[t] : <<t, n>> \in ExecIds

\* A settled live window on which three items of two different background
\* threads, two of them of the same thread, have been executed.
C1_Witness ==
    /\ viewAlive /\ IdleSettled
    /\ Len(executed) = 3
    /\ \E i, j, k \in 1..3 :
          /\ executed[i].item.thr = executed[j].item.thr /\ i # j
          /\ executed[k].item.thr # executed[i].item.thr
          /\ executed[k].item.thr # UiThread /\ executed[i].item.thr # UiThread

\* C2 as stated: a push posts a wake if and only if the queue was empty
\* immediately before it.
C2_WakeIffEmpty ==
    lastPush # NoPush => (lastPush.woke <=> lastPush.wasEmpty)

\* C2, amended: a push posts a wake if and only if the queue was empty
\* immediately before it and the view is still alive; the test and the push
\* are made under one hold of the mutex, so at most one wake is pending and a
\* push onto a non-empty queue posts none.
C2_WakeIffEmptyAndAlive ==
    /\ lastPush # NoPush =>
          (lastPush.woke <=> (lastPush.wasEmpty /\ lastPush.alive))
    /\ wakes <= 1

\* A push onto a non-empty queue that elided its wake while the wake of the
\* first push is still pending.
C2_Witness ==
    /\ lastPush # NoPush /\ ~lastPush.wasEmpty /\ ~lastPush.woke
    /\ wakes = 1 /\ Len(idle_queue) = 2

\* The items in the order run_idle meets them: executed, taken, still queued.
IdleOrder(seq) == [i \in 1..Len(seq) |-> seq[i].order]
AllInOrder ==
    IdleOrder([i \in 1..Len(executed) |-> executed[i].item])
        \o IdleOrder(taken) \o IdleOrder(idle_queue)

\* C3: the drain takes the whole queue and clears it before it executes
\* anything, and runs the items in insertion order; an item pushed while pass
\* p is executing is executed in pass p + 1, never in pass p.
C3_TakeAndClearNextPass ==
    /\ \A i \in 1..Len(executed) :
          executed[i].pass = executed[i].item.pushPass + 1
    /\ \A i, j \in 1..Len(AllInOrder) : i < j => AllInOrder[i] < AllInOrder[j]
    /\ uiPc \in {"drain", "exec"} =>
          /\ \A i \in 1..Len(taken) : taken[i].pushPass = pass - 1
          /\ \A i \in 1..Len(idle_queue) : idle_queue[i].pushPass = pass

\* An item that a callback of pass 1 enqueued has been executed in pass 2.
C3_Witness ==
    \E i \in 1..Len(executed) :
        /\ executed[i].item.thr = UiThread
        /\ executed[i].item.pushPass = 1
        /\ executed[i].pass = 2

----------------------------------------------------------------------------
\* Properties of the timers

\* The timer and the timeout the latest Wayland request_timer call made.
WlLastTimer ==
    [token |-> wlLast.token, deadline |-> wlLast.deadline, id |-> wlLast.id]
WlLastEarlier ==
    \A t \in wlLast.timersBefore : wlLast.deadline < t.deadline

\* C5: request_timer on a live window cancels all timeouts and adds one for
\* the new timer if and only if the new deadline is strictly earlier than every
\* deadline pending before the call (always, when none is pending); otherwise
\* the timeouts are left as they were.  In both cases the timer is inserted.
C5_ReprogramIffStrictlyEarlier ==
    wlLast # NoRequest =>
        /\ WlLastTimer \notin wlLast.timersBefore
        /\ timers = wlLast.timersBefore \cup {WlLastTimer}
        /\ WlLastEarlier => {to.token : to \in timeouts} = {wlLast.token}
        /\ ~WlLastEarlier => timeouts = wlLast.timeoutsBefore

\* The latest request_timer had a deadline equal to the earliest pending one
\* and left the timeouts untouched.
C5_Witness ==
    /\ wlLast # NoRequest
    /\ \E t \in wlLast.timersBefore : t.deadline = wlLast.deadline
    /\ ~WlLastEarlier
    /\ timeouts = wlLast.timeoutsBefore
    /\ Cardinality(timers) = 3

\* C6: after any sequence of request_timer calls, none having fired, the
\* native timer source holds exactly one timeout and its token is that of a
\* registered timer with the minimum deadline.
C6_OneTimeoutForEarliest ==
    timers # {} =>
        /\ Cardinality(timeouts) = 1
        /\ \A to \in timeouts : \E t \in timers :
              /\ t.token = to.token
              /\ \A u \in timers : t.deadline <= u.deadline

\* Three timers are registered, the second one requested being the earliest:
\* the timeout was reprogrammed for it and survived the third request.
C6_Witness ==
    /\ Cardinality(timers) = 3
    /\ wlLast.timeoutsBefore = timeouts
    /\ Cardinality(wlLast.timersBefore) = 2
    /\ \E to \in timeouts : \E t \in wlLast.timersBefore :
          /\ to.token # t.token
          /\ to.deadline < t.deadline

\* C7: handler.timer is called with the token value request_timer returned,
\* for every token value.
C7_TimerHookGetsReturnedToken ==
    \A i \in 1..Len(macFired) : macFired[i].token = macFired[i].returned

\* C8 as stated: a passed deadline programs a zero timeout and a future
\* deadline programs deadline - now.
C8_TimeoutIsDeadlineMinusNow ==
    /\ \A to \in timeouts :
          to.dur = IF to.deadline <= to.at THEN 0 ELSE to.deadline - to.at
    /\ \A t \in nsTimers :
          t.ti = IF t.deadline <= t.at THEN 0 ELSE t.deadline - t.at

\* C8, amended: a passed deadline programs a zero timeout, never a negative
\* one; a future deadline programs deadline - now on Wayland and deadline - now
\* truncated to whole microseconds on macOS.
C8_TimeoutClampedTruncated ==
    /\ \A to \in timeouts :
          /\ to.dur >= 0
          /\ to.dur = IF to.deadline <= to.at THEN 0 ELSE to.deadline - to.at
    /\ \A t \in nsTimers :
          /\ t.ti >= 0
          /\ t.ti % NanosPerMicro = 0
          /\ t.deadline <= t.at => t.ti = 0
          /\ t.deadline > t.at =>
                /\ t.ti <= t.deadline - t.at
                /\ t.deadline - t.at - t.ti < NanosPerMicro

\* Two NSTimers are scheduled: one requested after its deadline had passed,
\* with a zero interval, one requested one and a half microseconds before its
\* deadline, with an interval of one microsecond.
C8_Witness ==
    \E t1, t2 \in nsTimers :
        /\ t1.deadline < t1.at /\ t1.ti = 0
        /\ t2.deadline - t2.at = 3 * ClockStep /\ t2.ti = NanosPerMicro

----------------------------------------------------------------------------
\* Properties of the key repeat

\* C9: at most one key-repeat timer source is registered in the event loop,
\* and it is the one whose token the keyboard state holds: a key press that
\* starts a repeat removes the source registered before and registers its own.
C9_AtMostOneRepeatTimer ==
    /\ Cardinality(sources) <= 1
    /\ \A src \in sources : src.token = repeat_token

\* A second key press has replaced the repeat timer of the first one while
\* that timer was still registered (40 ms after the start, before any delay
\* can have run out).
C9_Witness ==
    /\ ktime = KStep
    /\ current_repeat # NoKey
    /\ \E src \in sources :
          /\ src.token = 2
          /\ src.deadline = ktime + repeat_info.delay

KeyDownEvent(key, repeat) ==
    [key |-> key, state |-> "Down", repeat |-> repeat, flip |-> ~lastKey.flip,
     mods |-> xkb_mods]

\* C10: with repeat delay D and gap G, a key press gives the focused window
\* one non-repeat KeyDown at once and schedules the repeat timer D later;
\* while the key stays the current repeat key the timer fires at D, D + G,
\* D + 2G, ... after the press, each firing gives the window a repeat-flagged
\* KeyDown of that key, and none is given before D.
C10_RepeatSchedule ==
    [][ /\ \A k \in RawKeys :
             (KeyPressed(k) /\ HasHandler /\ xkb_state) =>
                 /\ lastKey' = KeyDownEvent(k + KeycodeOffset, FALSE)
                 /\ repeat_info # Disable =>
                       /\ current_repeat' = k + KeycodeOffset
                       /\ \E src \in sources' :
                             src.deadline = ktime + repeat_info.delay
        /\ \A src \in sources :
             (RepeatTimer(src) /\ current_repeat # NoKey /\ HasHandler
                 /\ xkb_state) => lastKey' = KeyDownEvent(current_repeat, TRUE)
        /\ (lastKey' # lastKey /\ lastKey'.repeat /\ kPress # NoPress) =>
              /\ lastKey'.key = kPress.key
              /\ kPress'.n = kPress.n + 1
              /\ ktime = kPress.at + repeat_info.delay
                           + kPress.n * repeat_info.gap
        /\ (current_repeat' # NoKey /\ kPress' # NoPress) =>
              \E src \in sources' :
                  src.deadline = kPress'.at + repeat_info'.delay
                                   + kPress'.n * repeat_info'.gap
      ]_vars

\* With the default repeat info, the third repeat KeyDown of a held key has
\* just been given to its window, 280 ms after the press.
C10_Witness ==
    /\ repeat_info = DefaultRepeatInfo
    /\ kPress # NoPress /\ kPress.n = 3
    /\ current_repeat = kPress.key
    /\ ktime = kPress.at + 280 * MicrosPerMilli
    /\ lastKey.repeat /\ lastKey.key = kPress.key
    /\ HasHandler

\* A repeat-flagged KeyDown is given to a window in this step.
RepeatDelivered == lastKey' # lastKey /\ lastKey'.repeat

C12_DisableStopsRepeat ==
    [][ /\ \A i \in RepeatInfoInputs :
             (RepeatInfoEvent(i[1], i[2]) /\ i[1] = 0) =>
                 /\ repeat_info' = Disable
                 /\ sources' = {}
                 /\ current_repeat' = NoKey
        /\ repeat_info = Disable =>
              /\ sources = {} /\ current_repeat = NoKey
              /\ ~RepeatDelivered
              /\ \A k \in RawKeys :
                    KeyPressed(k) => sources' = {} /\ current_repeat' = NoKey
      ]_vars

\* Repeat was disabled while a key was repeating (the last event the window
\* got is a repeat KeyDown), and time has passed since.
C12_Witness ==
    /\ repeat_info = Disable
    /\ HasHandler
    /\ lastKey.repeat
    /\ sources = {}
    /\ ktime > DefaultDelayMs * MicrosPerMilli + KStep

\* C13 as stated: a RepeatInfo with a nonzero rate sets the gap and the delay
\* and cancels the repeat that is scheduled.
C13_RateChangeCancelsRepeat ==
    [][ \A i \in RepeatInfoInputs :
           (RepeatInfoEvent(i[1], i[2]) /\ i[1] # 0) =>
               /\ repeat_info' = Repeat(MicrosPerSec \div i[1],
                                        i[2] * MicrosPerMilli)
               /\ sources' = {}
      ]_vars

\* C13, amended: a RepeatInfo with a nonzero rate stores gap = 1,000,000
\* microseconds / rate (integer division) and delay = the given milliseconds
\* at once, and leaves the scheduled repeat as it is: the registered timer
\* keeps its deadline and the repeat key stays.  The new gap is used when the
\* timer is next re-armed, the new delay at the next key press.
C13_RateChangeKeepsRepeat ==
    [][ /\ \A i \in RepeatInfoInputs :
             (RepeatInfoEvent(i[1], i[2]) /\ i[1] # 0) =>
                 /\ repeat_info' = Repeat(MicrosPerSec \div i[1],
                                          i[2] * MicrosPerMilli)
                 /\ sources' = sources
                 /\ current_repeat' = current_repeat
                 /\ repeat_token' = repeat_token
        /\ (RepeatDelivered /\ repeat_info # Disable) =>
              sources' = {[token |-> repeat_token,
                           deadline |-> ktime + repeat_info.gap]}
      ]_vars

\* The compositor has announced 30 keys per second with a delay of 120 ms
\* while a key was repeating, and the timer has been re-armed with the new
\* gap of 33333 microseconds.
C13_Witness ==
    /\ repeat_info = Repeat(33333, 120 * MicrosPerMilli)
    /\ current_repeat # NoKey
    /\ lastKey.repeat
    /\ \E src \in sources : src.deadline = ktime + 33333
    /\ ktime >= DefaultDelayMs * MicrosPerMilli

----------------------------------------------------------------------------
\* Properties of the macOS text input

\* C14: set_focused_text_field(Some(B)) while field A is active resets A
\* while A is still the active field, before B becomes active;
\* set_focused_text_field(None) resets the field that was active and no
\* other; the window has at most one active text field (active_text_input is
\* one field or none) at every moment.
C14_FocusSwitchResetsOld ==
    [][ /\ active_text_input' \in TextFields \cup {NoField}
        /\ \A b \in TextFields \cup {NoField} :
             (SetFocusedTextField(b) /\ viewAlive) =>
                LET a == active_text_input
                IN /\ active_text_input' = b
                   /\ (a # NoField /\ b # NoField) =>
                         /\ Len(resetLog') = 2
                         /\ resetLog'[1] = [field |-> a, active |-> a]
                         /\ resetLog'[2] = [field |-> b, active |-> b]
                         /\ ~composition'[a]
                   /\ (a # NoField /\ b = NoField) =>
                         /\ resetLog' = <<[field |-> a, active |-> a]>>
                         /\ composition' = [composition EXCEPT ![a] = FALSE]
                   /\ (a = NoField /\ b = NoField) =>
                         /\ resetLog' = <<>>
                         /\ composition' = composition
      ]_vars

\* The focus has moved from field 1 to field 2: field 1 was reset as the
\* active field, then field 2, and the composition another field holds is
\* still there.
C14_Witness ==
    /\ viewAlive
    /\ lastFocus = [old |-> 1, new |-> 2, alive |-> TRUE]
    /\ resetLog = <<[field |-> 1, active |-> 1], [field |-> 2, active |-> 2]>>
    /\ active_text_input = 2
    /\ ~composition[1]

\* C15: a native key-down goes on to the input context, as the native event
\* object it arrived as, exactly when it produced a key event and the
\* handler's key_down returned false; a key-up and a modifier change never
\* go to the input context.
C15_ForwardIffUnhandledKeyDown ==
    /\ lastNative.forwarded # NoEvent <=>
          /\ lastNative.kind = "key_down"
          /\ lastNative.produced
          /\ ~lastNative.handled
    /\ lastNative.forwarded # NoEvent => lastNative.forwarded = lastNative.ev
    /\ lastNative.kind \in {"key_up", "mods_changed"} =>
          lastNative.forwarded = NoEvent

\* The handler has declined the key-down of the second native event, which
\* went on to the input context and started a composition in the active field.
C15_Witness ==
    /\ lastNative.kind = "key_down"
    /\ lastNative.produced /\ ~lastNative.handled
    /\ lastNative.forwarded = 2
    /\ active_text_input # NoField
    /\ composition[active_text_input]

----------------------------------------------------------------------------
\* Properties of the Wayland windows

\* C16: set_size(S) returns without panicking, for every S of positive width
\* and height, and get_size() then returns S.
C16_SetSizeRoundTrip ==
    [][ \A sz \in SizeInputs :
           WlSetSize(sz) => (size' = sz /\ ~panicked') ]_vars

\* C17: close() on a handle that has been closed before leaves the registry
\* and the stack of active surfaces as they are.
C17_SecondCloseChangesNothing ==
    [][ \A w \in Windows :
           (WlClose(w) /\ w \notin handles) =>
               UNCHANGED <<handles, active_surface_id>> ]_vars

StackIds == {active_surface_id[i] : i \in 1..Len(active_surface_id)}

\* C18: after any sequence of build and close calls the ids on the stack of
\* active surfaces are exactly the ids in the registry.
C18_StackMatchesRegistry == StackIds = handles

C20_FailedFrameNotRetried ==
    [][ /\ lastConfigure'.attempted <=>
              /\ lastConfigure'.mode = "Client"
              /\ ~lastConfigure'.hadFrame
              /\ ~lastConfigure'.failedBefore
        /\ csd_fails => (csd_fails' /\ ~frame')
        /\ \A m \in DecorationModes, n \in ConfigureSizes, s \in BOOLEAN,
              ok \in BOOLEAN :
              Configure(m, n, s, ok) =>
                  /\ lastConfigure'.failedBefore = csd_fails
                  /\ lastConfigure'.hadFrame = frame
                  /\ lastConfigure'.mode = m
                  /\ (lastConfigure'.attempted /\ ~ok) => csd_fails'
      ]_vars

\* The construction of the frame has failed, and a later configure in
\* client-side mode has left it alone.
C20_Witness ==
    /\ csd_fails
    /\ ~frame
    /\ lastConfigure.mode = "Client"
    /\ lastConfigure.failedBefore
    /\ ~lastConfigure.attempted

----------------------------------------------------------------------------
\* Wayland seat: events for absent windows, panics, wheel deltas, modifiers

InRegistry(e) == e.win \in handles
KeyEventStep == \E k \in RawKeys : KeyPressed(k) \/ KeyReleased(k)

\* C21 (for events on main surfaces whose handlers do not call back into the
\* window): a pointer event whose window is not in the registry and a key event
\* arriving while no window has the focus (or while the focused window is not
\* in the registry) reach no handler method and raise no error, and the other
\* events of the same batch are still given to their handlers, in order.
C21_AbsentWindowSkipped ==
    [][/\ (/\ lastFrame' # lastFrame
           /\ ~lastFrame'.reentered
           /\ ~OnDecoration(lastFrame'.events)) =>
                LET live == SelectSeq(lastFrame'.events, InRegistry)
                IN /\ ~panicked'
                   /\ lastKey' = lastKey
                   /\ Len(lastFrame'.calls) = Len(live)
                   /\ \A i \in 1..Len(live) :
                         /\ lastFrame'.calls[i].win = live[i].win
                         /\ lastFrame'.calls[i].win \in handles
                         /\ (live[i].kind = "Axis")
                               = (lastFrame'.calls[i].hook = "wheel")
       /\ (KeyEventStep /\ ~HasHandler) =>
             /\ ~panicked'
             /\ lastKey' = lastKey
             /\ lastFrame' = lastFrame]_vars

\* A frame of two events was handled whose first event was for a closed
\* window: the second one reached its handler.
C21_Witness ==
    /\ ~panicked
    /\ Len(lastFrame.events) = 2
    /\ lastFrame.events[1].win \notin handles
    /\ lastFrame.events[2].win \in handles
    /\ Len(lastFrame.calls) = 1
    /\ lastFrame.calls[1].win = lastFrame.events[2].win
    /\ window_id # NoWindow
    /\ window_id \notin handles

\* C22: no sequence of keyboard and pointer events panics, a Key event
\* received before any xkb keymap was installed included (the handlers the
\* events reach not calling back into the window).
C22_NoEventPanics == panicked => lastFrame.reentered

\* C26: the wheel delta given to the handler is the negated native delta,
\* as is when the native delta is continuous and times 32 per notch when it
\* is discrete.
C26_WheelDeltaScaled ==
    (/\ Len(lastFrame.events) = 1
     /\ lastFrame.events[1].kind = "Axis"
     /\ Len(lastFrame.calls) = 1) =>
        LET axis == lastFrame.events[1].axis
        IN lastFrame.calls[1].delta =
              IF axis.hDiscrete # 0 \/ axis.vDiscrete # 0
              THEN <<0 - 32 * axis.hDiscrete, 0 - 32 * axis.vDiscrete>>
              ELSE <<0 - axis.hAbsolute, 0 - axis.vAbsolute>>

\* C28: every pointer event given to a handler carries the modifiers of the
\* latest Modifiers event of the seat, and so does every key event.
C28_EventsCarryReportedModifiers ==
    [][/\ lastFrame' # lastFrame =>
             \A i \in 1..Len(lastFrame'.calls) :
                 lastFrame'.calls[i].mods = modsReported
       /\ lastKey' # lastKey => lastKey'.mods = modsReported]_vars

----------------------------------------------------------------------------
\* macOS window state

\* C25: set_window_state(s) sends nothing to the window when s is the current
\* state; otherwise it sends exactly one message: performMiniaturize for
\* Minimized, performZoom for Maximized, performZoom for Restored from
\* Maximized, deminiaturize for Restored from Minimized.
C25_OneNativeCallPerEffectiveRequest ==
    lastStateCall # NoStateCall =>
        LET c == lastStateCall
        IN /\ c.state = c.cur => c.calls = <<>>
           /\ c.state # c.cur =>
                 /\ Len(c.calls) = 1
                 /\ c.state = "Minimized" => c.calls[1] = "performMiniaturize"
                 /\ c.state = "Maximized" => c.calls[1] = "performZoom"
                 /\ (c.state = "Restored" /\ c.cur = "Maximized") =>
                       c.calls[1] = "performZoom"
                 /\ (c.state = "Restored" /\ c.cur = "Minimized") =>
                       c.calls[1] = "deminiaturize"

\* A window that was zoomed and then minimized has been restored from
\* Minimized.
C25_Witness ==
    /\ lastStateCall.state = "Restored"
    /\ lastStateCall.cur = "Minimized"
    /\ lastStateCall.calls = <<"deminiaturize">>
    /\ ~isMiniaturized
    /\ isZoomed

----------------------------------------------------------------------------
\* Wayland windows: the initial configure

\* C23: build returns Ok(handle) for a window only after the window has had
\* its first configure, and a configured window stays configured.
C23_ReturnedOnlyConfigured ==
    [][/\ FirstWindow \in returned' => last_configure'.configured
       /\ last_configure.configured => last_configure'.configured]_vars

\* build has returned the first window, which a later configure has given a
\* frame.
C23_Witness ==
    /\ FirstWindow \in returned
    /\ last_configure.configured
    /\ frame

----------------------------------------------------------------------------
\* macOS: input locks

\* The lock calls of the log come in pairs: an acquire, then at once the
\* release of the same token.
LocksPaired(log) ==
    /\ Len(log) % 2 = 0
    /\ \A i \in 1..Len(log) :
          IF i % 2 = 1
          THEN log[i].op = "acquire"
          ELSE log[i].op = "release" /\ log[i].token = log[i - 1].token

\* C30: every acquire_input_lock(token) the backend makes is followed by
\* exactly one release_input_lock of the same token before the call returns;
\* the edit-lock helper takes the lock of the active field and nothing when
\* there is none; update_text_field takes the lock of its token when the
\* token is the active field and the event is Reset or SelectionChanged, and
\* nothing otherwise.
C30_InputLocksScoped ==
    [][/\ LocksPaired(lockLog')
       /\ \A m \in BOOLEAN :
             WithEditLockFromWindow(m) =>
                lockLog' = IF active_text_input = NoField THEN <<>>
                           ELSE <<[op |-> "acquire",
                                   token |-> active_text_input],
                                  [op |-> "release",
                                   token |-> active_text_input]>>
       /\ \A f \in TextFields,
             e \in {"LayoutChanged", "Reset", "SelectionChanged"} :
             UpdateTextField(f, e) =>
                lockLog' = IF f # active_text_input \/ e = "LayoutChanged"
                           THEN <<>>
                           ELSE <<[op |-> "acquire", token |-> f],
                                  [op |-> "release", token |-> f]>>]_vars

\* A focus switch between two fields has taken and released the lock of
\* each of them in turn.
C30_Witness ==
    /\ Len(lockLog) = 4
    /\ lockLog[1].token # lockLog[3].token
    /\ lockLog[3].token = active_text_input
    /\ composition[active_text_input] = FALSE

----------------------------------------------------------------------------
\* Wayland timers: a handle without window state

\* C29: request_timer on a handle whose window state is absent returns a
\* token without panicking and leaves the timer registry and the timeouts of
\* the timer source as they were.
C29_AbsentStateNoPanic ==
    [][\A d \in DeadlineSet :
          WlRequestTimerAbsent(d) =>
             /\ ~panicked'
             /\ timers' = timers
             /\ timeouts' = timeouts]_vars

----------------------------------------------------------------------------
\* Results of background threads

BackgroundThreads == Threads \ {UiThread}

----------------------------------------------------------------------------
\* Key repeat and the release of another key

\* C35: a key-up stops the repeat only when the released key is the one
\* repeating: releasing another key leaves the repeat key in place.
C35_OtherKeyReleaseKeepsRepeat ==
    [][\A k \in RawKeys :
          (/\ KeyReleased(k)
           /\ current_repeat # NoKey
           /\ current_repeat # k + KeycodeOffset) =>
              current_repeat' = current_repeat]_vars

----------------------------------------------------------------------------
\* The idle queue and its wake

\* C36: whenever the queue's mutex is free and no run_idle is between its
\* wake and its take, a wake is pending exactly when the queue is non-empty,
\* and at most one wake is pending.
C36_WakeIffQueueNonEmpty ==
    (mutex = NoThread /\ uiPc # "entered") =>
        /\ wakes <= 1
        /\ (wakes > 0) = (idle_queue # <<>>)

\* C36, while the view is alive.
C36_WakeIffQueueNonEmptyWhileAlive ==
    (mutex = NoThread /\ uiPc # "entered" /\ viewAlive) =>
        /\ wakes <= 1
        /\ (wakes > 0) = (idle_queue # <<>>)

\* Two items wait in the queue of a live view behind one wake.
C36_Witness ==
    /\ viewAlive
    /\ mutex = NoThread
    /\ uiPc # "entered"
    /\ Len(idle_queue) = 2
    /\ wakes = 1

----------------------------------------------------------------------------
\* Wayland seat: decorations, frame clicks, handlers calling back

IsMain(e) == e.surface = "main"

\* C40: pointer events on a decoration sub-surface of a window are not given
\* to the window's handler: a frame makes no more handler calls than it has
\* events on main surfaces.
C40_DecorationEventsNotForwarded ==
    Len(lastFrame.calls) <= Len(SelectSeq(lastFrame.events, IsMain))

\* C33: frame_click reports that the window should be closed (by its result
\* or by a queued close update) when the click yields the Close action, and
\* that it should not for every other frame action.
C33_FrameClickReportsClose ==
    /\ lastFrame.click.action = "Close" =>
          (lastFrame.click.shouldClose \/ lastFrame.click.closeQueued)
    /\ lastFrame.click.action # "Close" =>
          (~lastFrame.click.shouldClose /\ ~lastFrame.click.closeQueued)

\* C39: a handler method that calls close() on its own window's handle meets
\* no conflicting borrow.
C39_HandlerMayReenter == lastFrame.reentered => ~panicked

----------------------------------------------------------------------------
\* Wayland window life cycle: redraw, stateless size, failed builds, connect

\* C31: redraw calls paint once when a redraw was requested since the
\* previous redraw or the frame was dirty, not at all otherwise, and does not
\* panic.
C31_RedrawPaintsOnceWhenAsked ==
    /\ lastRedraw.paints =
          IF lastRedraw.requested \/ lastRedraw.dirty THEN 1 ELSE 0
    /\ (lastRedraw.requested \/ lastRedraw.dirty) => ~panicked

C37_FailedBuildLeavesNoTrace ==
    [][\A w \in Windows :
          BuildFails(w) => /\ handles' = buildBefore.handles
                           /\ active_surface_id' = buildBefore.stack]_vars

\* C38: the first handler method called for a window is connect.
C38_ConnectComesFirst == firstHook \in {"none", "connect"}

----------------------------------------------------------------------------
\* macOS: closing a window

====
